---- MODULE Spec2Model ----
(***************************************************************************)
(* Model lifecycle supervisor of the vLLM Studio controller.               *)
(*                                                                         *)
(* Handlers run as coroutines on one asyncio event loop: a step of the     *)
(* model is the code a handler runs between two suspension points (a       *)
(* sleep, a lock wait, an HTTP round trip).  Wall-clock time is abstracted:*)
(* a sleep ends at an arbitrary later step, the 2 s lock timeout may fire  *)
(* whenever the lock has not been granted, and the 300 s readiness         *)
(* deadline is MaxTicks iterations of the wait loop.                       *)
(***************************************************************************)
EXTENDS Integers, Sequences, FiniteSets, TLC

\* ---------------------------------------------------------------- bounds
\* requests the controller handles, concurrently or one after the other;
\* each is a POST /launch, a POST /evict or a chat completion (EnsureRunning)
MaxCalls == 2
\* passes of the readiness wait loop before its deadline, launch and proxy
MaxTicks == 2
MaxEnsureTicks == 1

\* event bus: publish calls made, subscribers, and the wall-clock range in ms
MaxEvents == 3
MaxSubs == 2
MaxClock == 1
\* capacity of a subscriber queue (asyncio.Queue(maxsize=100), scaled down)
maxsize == 2

\* chunks of one upstream stream
MaxChunks == 2

\* metrics loop: iterations, tokens and requests a backend serves in its
\* life, controller restarts, backend starts
MaxMetricTicks == 3
MaxServed == 2
MaxRestarts == 1

\* entries of a recipe's extra_args
MaxExtra == 2

Calls == 1..MaxCalls
LaunchIds == Calls
EnsureIds == Calls
EvictIds == Calls
\* every call spawns at most one process
Pids == 1..MaxCalls

Recipes == {"r1", "r2"}
NoRecipe == "none"
NoPid == 0
NoLaunch == 0
NoCaller == <<"none", 0>>

VARIABLES
    proc,        \* pid -> OS process record (the process table)
    launching,   \* system._launching_recipe_id
    cancelMap,   \* lifecycle._launch_cancel_events: recipe id -> owning launch
    llock,       \* lifecycle._switch_lock: holder
    llockq,      \* lifecycle._switch_lock: FIFO of waiters
    plock,       \* proxy._switch_lock: holder
    plockq,      \* proxy._switch_lock: FIFO of waiters
    lpc,         \* launch call -> position in launch()
    lrecipe,     \* launch call -> recipe_id
    lcancel,     \* launch call -> its cancel_event.is_set()
    lpid,        \* launch call -> pid returned by launch_model
    lticks,      \* launch call -> iterations of the wait loop completed
    lresp,       \* launch call -> outcome of the health request in flight
    lresult,     \* launch call -> LaunchResult (outcome, message)
    lpub,        \* launch call -> launch_progress events it has published
    lhist,       \* launch call -> history flags used by the properties
    epc,         \* ensure call -> position in _ensure_model_running()
    emodel,      \* ensure call -> requested model
    epid,        \* ensure call -> pid returned by launch_model
    eticks,      \* ensure call -> iterations of the wait loop completed
    eresp,       \* ensure call -> outcome of the health request in flight
    eresult,     \* ensure call -> "none" | "ok" | error kind
    chat,        \* ensure call -> what chat_completions_proxy does with the result
    vpc,         \* evict call -> position in evict()
    vforce       \* evict call -> force parameter

slotVars == <<launching, cancelMap>>
lockVars == <<llock, llockq>>
plockVars == <<plock, plockq>>
launchVars == <<lpc, lrecipe, lcancel, lpid, lticks, lresp, lresult, lpub, lhist>>
ensureVars == <<epc, emodel, epid, eticks, eresp, eresult, chat>>
evictVars == <<vpc, vforce>>
lifecycleVars == <<proc, launching, cancelMap, llock, llockq, plock, plockq,
          lpc, lrecipe, lcancel, lpid, lticks, lresp, lresult, lpub, lhist,
          epc, emodel, epid, eticks, eresp, eresult, chat, vpc, vforce>>

\* events.py: the EventManager singleton and its subscribers
VARIABLES
    now,          \* datetime.utcnow() in milliseconds
    subscribers,  \* EventManager._subscribers: channel -> set of subscriber queues
    event_count,  \* EventManager._event_count
    queue,        \* subscriber -> content of its asyncio.Queue
    spc,          \* subscriber -> position in subscribe()
    schan,        \* subscriber -> channel it subscribed to
    received,     \* subscriber -> events its iterator has yielded
    published,    \* channel -> events published on it, in publish order
    sfrom,        \* subscriber -> number of events published before it joined
    missed        \* subscriber -> a put_nowait on its queue raised QueueFull

busVars == <<now, subscribers, event_count, queue, spc, schan, received, published,
             sfrom, missed>>
\* routes/proxy.py: one chat request passing through the repairs
VARIABLES
    rphase,            \* "idle" | "stream" | "ended" | "json" | "hook" | "json_refused" | "stream_refused"
    in_thinking,       \* think_state["in_thinking"]
    tool_call_buffer,  \* tool_call_buffer of stream_response
    upstream,          \* chunks received from the upstream so far
    delivered,         \* chunks yielded to the client, with the chunk they come from
    request,           \* the upstream message of a non-streaming request
    reply,             \* the message returned for it
    http_status        \* status line of the proxy's response, 0 before it is sent

repairVars == <<rphase, in_thinking, tool_call_buffer, upstream, delivered, request, reply,
                http_status>>
\* app.py: the metrics loop broadcast_updates, the durable lifetime store,
\* and the backend whose /metrics it scrapes
VARIABLES
    lifetime,             \* rows of the lifetime_metrics table (durable)
    last_tokens_total,    \* local of broadcast_updates
    last_requests_total,  \* local of broadcast_updates
    backend_running,      \* find_inference_process finds a backend
    backend_tokens,       \* generation_tokens_total + prompt_tokens_total of the backend
    backend_requests,     \* request_success of the backend
    reported_tokens,      \* what this backend's /metrics gave at the previous tick, -1 if none yet
    mticks,               \* iterations of the loop so far
    restarts              \* controller restarts so far

metricsVars == <<lifetime, last_tokens_total, last_requests_total, backend_running,
                 backend_tokens, backend_requests, reported_tokens, mticks, restarts>>
\* backends.py: one call of build_vllm_command
VARIABLES
    bphase,        \* "idle" | "built"
    build_recipe,  \* the recipe passed in
    cmd            \* the command returned

buildVars == <<bphase, build_recipe, cmd>>
\* state outside routes/lifecycle.py and routes/proxy.py's switch logic
sideVars == <<busVars, repairVars, metricsVars, buildVars>>
vars == <<lifecycleVars, sideVars>>

\* ------------------------------------------------------- process table
\* A backend process: st is the state of the spawned pid, child says whether
\* a descendant (worker) of it is alive, ready whether /health answers 200.
\* the pid has exited and so have its descendants
Gone == [st |-> "dead", child |-> FALSE, ready |-> FALSE, recipe |-> NoRecipe]
\* the pid has exited and a descendant of it lives on
Orphaned(r) == [r EXCEPT !.st = "dead", !.ready = FALSE, !.recipe = NoRecipe]

Alive(pr) == {p \in Pids : pr[p].st = "alive"}

\* psutil.pid_exists(pid)
pid_exists(pr, p) == p # NoPid /\ pr[p].st = "alive"

\* find_inference_process(port): the first process of the OS process table
\* whose command line matches.  OS pids are not ordered by spawn time, so any
\* matching process may come first.  NoPid stands for None.
find_inference_process(pr) == IF Alive(pr) = {} THEN {NoPid} ELSE Alive(pr)

\* kill_process(pid, force=True): SIGKILL to every descendant and the parent;
\* nothing at all when the pid no longer exists.
KillForce(pr, p) ==
    IF pid_exists(pr, p) THEN [pr EXCEPT ![p] = Gone] ELSE pr

\* kill_process(pid, force=False): SIGTERM to descendants and parent, wait up
\* to 10 s for the parent, SIGKILL the parent alone on timeout.  childDies
\* says whether the descendants honoured SIGTERM.
kill_process(pr, p, force, childDies) ==
    IF force THEN KillForce(pr, p)
    ELSE IF pid_exists(pr, p)
    THEN [pr EXCEPT ![p] = IF childDies \/ ~pr[p].child THEN Gone ELSE Orphaned(pr[p])]
    ELSE pr

\* evict_model(force): find the current backend and kill it
evict_model(pr, cur, force, childDies) ==
    IF cur = NoPid THEN pr ELSE kill_process(pr, cur, force, childDies)

\* the pid the next subprocess.Popen gets
FreshPid(pr) == CHOOSE p \in Pids : pr[p].st = "unborn" /\ \A q \in Pids : q < p => pr[q].st # "unborn"

\* subprocess.Popen(cmd, ..., start_new_session=True)
Popen(pr, rid, hasChild) ==
    [pr EXCEPT ![FreshPid(pr)] = [st |-> "alive", child |-> hasChild, ready |-> FALSE,
                                  recipe |-> rid]]

\* --------------------------------------------------------------- calls
\* A handler that has returned is observed in position "done" with its result
\* and what it published; the response is sent before anything else runs and
\* the slot is then "closed", its local state gone.
Returning == \E c \in Calls : lpc[c] = "done" \/ epc[c] = "done" \/ vpc[c] = "done"

\* the request slot has not been used yet; slots are used in order
NextCall(c) ==
    LET Unused(k) == lpc[k] = "idle" /\ epc[k] = "idle" /\ vpc[k] = "idle"
    IN Unused(c) /\ \A k \in Calls : k < c => ~Unused(k)

\* ----------------------------------------------------------- asyncio.Lock
\* an acquire that takes the lock whoever holds it
LockTakeSteal(holder, q, who) == who

\* acquire(): taken at once when free and nobody waits, else queued FIFO
LockTake(holder, q, who) == IF holder = NoCaller /\ q = <<>> THEN who ELSE holder
LockQueue(holder, q, who) == IF holder = NoCaller /\ q = <<>> THEN q ELSE Append(q, who)
\* release(): the first waiter is woken and owns the lock next
LockPass(q) == IF q = <<>> THEN NoCaller ELSE Head(q)
\* a release that leaves the waiter it woke in the queue
LockRestKeep(q) == q
LockRest(q) == IF q = <<>> THEN q ELSE Tail(q)

\* ------------------------------------------------------------ event bus
\* publish_launch_progress(recipe_id, stage, message, progress); progress is
\* kept in percent.  Publishing never suspends the caller (the bus lock is
\* never held across an await).
Ev(rid, stage, progress) == [rid |-> rid, stage |-> stage, progress |-> progress]

\* ----------------------------------------------------------- Launch slot
Me(l) == <<"launch", l>>
NoResult == [outcome |-> "none", message |-> ""]
NoHist == [issuedInWait |-> FALSE, issuedAfterWaiting |-> FALSE]

\* a preemption check that forgets to compare the recipe ids
MustPreemptAny(cur, rid) == cur # NoRecipe

\* lifecycle.py:104  current_launching and current_launching != recipe_id
MustPreempt(cur, rid) == cur # NoRecipe /\ cur # rid

\* a cleanup that leaves launching_recipe_id as it is
ClearLaunchingNever(cur, rid) == cur

\* lifecycle.py:258-259  outer finally, launching id
ClearLaunching(cur, rid) == IF cur = rid THEN NoRecipe ELSE cur

\* a cleanup that leaves the cancel event in the map
DropCancelNever(map, rid, l) == map

\* lifecycle.py:260-261  outer finally, cancel map
DropCancel(map, rid, l) == IF map[rid] = l THEN [map EXCEPT ![rid] = NoLaunch] ELSE map

\* lifecycle.py:121-127  register the launch and start waiting for the lock
Register(l, rid, pubs, pr) ==
    /\ cancelMap' = [cancelMap EXCEPT ![rid] = l]
    /\ lcancel' = [lcancel EXCEPT ![l] = FALSE]
    /\ launching' = rid
    /\ llock' = LockTake(llock, llockq, Me(l))
    /\ llockq' = LockQueue(llock, llockq, Me(l))
    /\ lpc' = [lpc EXCEPT ![l] = "acquire"]
    /\ lrecipe' = [lrecipe EXCEPT ![l] = rid]
    /\ lpub' = [lpub EXCEPT ![l] = pubs]
    /\ proc' = pr

\* lifecycle.py:255-261  both finally blocks and the return of the result
Return(l, pubs, outcome, msg, pr) ==
    /\ lpc' = [lpc EXCEPT ![l] = "done"]
    /\ lticks' = [lticks EXCEPT ![l] = 0]
    /\ lresp' = [lresp EXCEPT ![l] = "none"]
    /\ lresult' = [lresult EXCEPT ![l] = [outcome |-> outcome, message |-> msg]]
    /\ lpub' = [lpub EXCEPT ![l] = pubs]
    /\ proc' = pr
    /\ llock' = LockPass(llockq)
    /\ llockq' = LockRest(llockq)
    /\ launching' = ClearLaunching(launching, lrecipe[l])
    /\ cancelMap' = DropCancel(cancelMap, lrecipe[l], l)

\* a failure path that returns without publishing anything
FailSilent(l, pubs, msg, pr) == Return(l, pubs, "error", msg, pr)

\* lifecycle.py:153-157, 216-219, 246-254  publish stage error for the recipe
\* and return LaunchResult(success=False, message=msg)
Fail(l, pubs, msg, pr) ==
    Return(l, Append(pubs, Ev(lrecipe[l], "error", 0)), "error", msg, pr)

\* lifecycle.py:94-123  launch(): preemption check, then registration
LaunchStart(l, rid) ==
    /\ ~Returning
    /\ NextCall(l)
    /\ lhist' = [a \in LaunchIds |->
                   IF a = l
                   THEN [lhist[a] EXCEPT !.issuedAfterWaiting =
                            \E b \in LaunchIds :
                               lpc[b] \in {"health", "tick"} /\ lrecipe[b] # rid]
                   ELSE IF lpc[a] \in {"health", "tick"} /\ lrecipe[a] # rid
                        THEN [lhist[a] EXCEPT !.issuedInWait = TRUE]
                        ELSE lhist[a]]
    /\ IF MustPreempt(launching, rid)
       THEN /\ \E cur \in find_inference_process(proc) :
                  proc' = evict_model(proc, cur, TRUE, TRUE)
            /\ lcancel' = IF cancelMap[launching] # NoLaunch     \* lifecycle.py:114-116
                          THEN [lcancel EXCEPT ![cancelMap[launching]] = TRUE]
                          ELSE lcancel
            /\ lpub' = [lpub EXCEPT ![l] = <<Ev(rid, "preempting", 0), Ev(launching, "cancelled", 0)>>]
            /\ lpc' = [lpc EXCEPT ![l] = "preempted"]
            /\ lrecipe' = [lrecipe EXCEPT ![l] = rid]
            /\ UNCHANGED <<launching, cancelMap, llock, llockq>>
       ELSE Register(l, rid, lpub[l], proc)
    /\ UNCHANGED <<lpid, lticks, lresp, lresult>>
    /\ UNCHANGED <<plockVars, ensureVars, evictVars>>
    /\ UNCHANGED sideVars

\* lifecycle.py:119-127  the sleep after the preemption ends
LaunchRegister(l) ==
    /\ ~Returning
    /\ lpc[l] = "preempted"
    /\ Register(l, lrecipe[l], lpub[l], proc)
    /\ UNCHANGED <<lpid, lticks, lresp, lresult, lhist>>
    /\ UNCHANGED <<plockVars, ensureVars, evictVars>>
    /\ UNCHANGED sideVars

\* lifecycle.py:128-132  the 2 s wait for the lock timed out
LaunchLockTimeout(l) ==
    /\ ~Returning
    /\ lpc[l] = "acquire"
    /\ llock # Me(l)
    /\ llockq' = SelectSeq(llockq, LAMBDA w : w # Me(l))    \* the waiter leaves the queue
    /\ \E cur \in find_inference_process(proc) :
           proc' = evict_model(proc, cur, TRUE, TRUE)
    /\ lpc' = [lpc EXCEPT ![l] = "lockslept"]
    /\ UNCHANGED <<llock, slotVars, lrecipe, lcancel, lpid, lticks, lresp, lresult, lpub, lhist>>
    /\ UNCHANGED <<plockVars, ensureVars, evictVars>>
    /\ UNCHANGED sideVars

\* lifecycle.py:132  await _switch_lock.acquire()
LaunchAcquire2(l) ==
    /\ ~Returning
    /\ lpc[l] = "lockslept"
    /\ llock' = LockTake(llock, llockq, Me(l))
    /\ llockq' = LockQueue(llock, llockq, Me(l))
    /\ lpc' = [lpc EXCEPT ![l] = "acquire2"]
    /\ UNCHANGED <<proc, slotVars, lrecipe, lcancel, lpid, lticks, lresp, lresult, lpub, lhist>>
    /\ UNCHANGED <<plockVars, ensureVars, evictVars>>
    /\ UNCHANGED sideVars

\* lifecycle.py:134-139  lock held: publish evicting, evict, sleep
LaunchAcquired(l) ==
    /\ ~Returning
    /\ lpc[l] \in {"acquire", "acquire2"}
    /\ llock = Me(l)
    /\ \E cur \in find_inference_process(proc) :
           proc' = evict_model(proc, cur, TRUE, TRUE)
    /\ lpub' = [lpub EXCEPT ![l] = Append(@, Ev(lrecipe[l], "evicting", 0))]
    /\ lpc' = [lpc EXCEPT ![l] = "evicted"]
    /\ UNCHANGED <<lockVars, slotVars, lrecipe, lcancel, lpid, lticks, lresp, lresult, lhist>>
    /\ UNCHANGED <<plockVars, ensureVars, evictVars>>
    /\ UNCHANGED sideVars

\* lifecycle.py:141-151 and process.py:204-226  cancel check, then spawn
LaunchAfterEvict(l) ==
    /\ ~Returning
    /\ lpc[l] = "evicted"
    /\ IF lcancel[l]
       THEN /\ Return(l, Append(lpub[l], Ev(lrecipe[l], "cancelled", 0)),
                      "cancelled", "Launch cancelled", proc)
            /\ UNCHANGED lpid
       ELSE \E popenOk \in BOOLEAN, hasChild \in BOOLEAN :
              LET pubs == Append(lpub[l], Ev(lrecipe[l], "launching", 25)) IN
              IF popenOk
              THEN /\ proc' = Popen(proc, lrecipe[l], hasChild)
                   /\ lpid' = [lpid EXCEPT ![l] = FreshPid(proc)]
                   /\ lpub' = [lpub EXCEPT ![l] = pubs]
                   /\ lpc' = [lpc EXCEPT ![l] = "spawned"]
                   /\ UNCHANGED <<lockVars, slotVars, lresult, lticks, lresp>>
              ELSE /\ hasChild = FALSE
                   /\ Fail(l, pubs, "Popen failed", proc)
                   /\ UNCHANGED lpid
    /\ UNCHANGED <<lrecipe, lcancel, lhist>>
    /\ UNCHANGED <<plockVars, ensureVars, evictVars>>
    /\ UNCHANGED sideVars

\* lifecycle.py:168-193  one pass of the wait loop up to the health request
LoopBody(l, pubs) ==
    IF lcancel[l]
    THEN /\ Return(l, Append(pubs, Ev(lrecipe[l], "cancelled", 0)),
                   "cancelled", "Launch cancelled", KillForce(proc, lpid[l]))
    ELSE IF ~pid_exists(proc, lpid[l])
    THEN /\ Fail(l, pubs, "Process crashed", proc)
    ELSE /\ lpc' = [lpc EXCEPT ![l] = "health"]
         /\ lresp' = [lresp EXCEPT ![l] = "none"]
         /\ lpub' = [lpub EXCEPT ![l] = pubs]
         /\ UNCHANGED <<proc, lockVars, slotVars, lresult, lticks>>

\* process.py:226-232 and lifecycle.py:153-193  the 3 s sleep of launch_model
\* ends: early-exit check, waiting event, first pass of the loop
LaunchAfterSpawn(l) ==
    /\ ~Returning
    /\ lpc[l] = "spawned"
    /\ IF ~pid_exists(proc, lpid[l])
       THEN /\ Fail(l, lpub[l], "Process exited early", proc)
       ELSE LoopBody(l, Append(lpub[l], Ev(lrecipe[l], "waiting", 50)))
    /\ UNCHANGED <<lrecipe, lcancel, lpid, lhist>>
    /\ UNCHANGED <<plockVars, ensureVars, evictVars>>
    /\ UNCHANGED sideVars

\* lifecycle.py:192-206 and 221-231  the health request is over
LaunchHealthResume(l) ==
    /\ ~Returning
    /\ lpc[l] = "health"
    /\ lresp[l] # "none"
    /\ IF lresp[l] = "ok"
       THEN /\ Return(l, Append(lpub[l], Ev(lrecipe[l], "ready", 100)),
                      "ready", "Model is ready", proc)
       ELSE /\ lpub' = [lpub EXCEPT ![l] = Append(@, Ev(lrecipe[l], "waiting", 50 + (lticks[l] * 50) \div MaxTicks))]
            /\ lticks' = [lticks EXCEPT ![l] = @ + 1]
            /\ lpc' = [lpc EXCEPT ![l] = "tick"]
            /\ lresp' = [lresp EXCEPT ![l] = "none"]
            /\ UNCHANGED <<proc, lockVars, slotVars, lresult>>
    /\ UNCHANGED <<lrecipe, lcancel, lpid, lhist>>
    /\ UNCHANGED <<plockVars, ensureVars, evictVars>>
    /\ UNCHANGED sideVars

\* lifecycle.py:168 and 232-254  the 2 s sleep ends: next pass, or the
\* deadline has passed and the spawned pid is force-killed
LaunchLoopTop(l) ==
    /\ ~Returning
    /\ lpc[l] = "tick"
    /\ IF lticks[l] < MaxTicks
       THEN LoopBody(l, lpub[l])
       ELSE IF pid_exists(proc, lpid[l])
       THEN /\ proc' = kill_process(proc, lpid[l], TRUE, TRUE)
            /\ lpc' = [lpc EXCEPT ![l] = "tkill"]
            /\ UNCHANGED <<lockVars, slotVars, lresult, lpub, lresp, lticks>>
       ELSE Fail(l, lpub[l], "timeout", proc)
    /\ UNCHANGED <<lrecipe, lcancel, lpid, lhist>>
    /\ UNCHANGED <<plockVars, ensureVars, evictVars>>
    /\ UNCHANGED sideVars

\* lifecycle.py:235-254  the sleep at the end of kill_process is over
LaunchAfterTimeoutKill(l) ==
    /\ ~Returning
    /\ lpc[l] = "tkill"
    /\ Fail(l, lpub[l], "timeout", proc)
    /\ UNCHANGED <<lrecipe, lcancel, lpid, lhist>>
    /\ UNCHANGED <<plockVars, ensureVars, evictVars>>
    /\ UNCHANGED sideVars

\* ------------------------------------------------------------- Evict
Ev_(v) == <<"evict", v>>

\* lifecycle.py:265-267  evict(): async with _switch_lock
EvictStart(v) ==
    /\ ~Returning
    /\ NextCall(v)
    /\ llock' = LockTake(llock, llockq, Ev_(v))
    /\ llockq' = LockQueue(llock, llockq, Ev_(v))
    /\ vpc' = [vpc EXCEPT ![v] = "acquire"]
    /\ UNCHANGED <<proc, vforce, slotVars, plockVars, launchVars, ensureVars>>
    /\ UNCHANGED sideVars

\* lifecycle.py:268 and process.py:237-243  lock held: evict_model(force)
EvictAcquired(v, force) ==
    /\ ~Returning
    /\ vpc[v] = "acquire"
    /\ llock = Ev_(v)
    /\ vforce' = [vforce EXCEPT ![v] = force]
    /\ \E cur \in find_inference_process(proc), childDies \in BOOLEAN :
         IF cur = NoPid
         THEN /\ childDies
              /\ llock' = LockPass(llockq)
              /\ llockq' = LockRest(llockq)
              /\ vpc' = [vpc EXCEPT ![v] = "done"]
              /\ UNCHANGED proc
         ELSE /\ (force \/ ~proc[cur].child) => childDies
              /\ proc' = evict_model(proc, cur, force, childDies)
              /\ vpc' = [vpc EXCEPT ![v] = "killed"]
              /\ UNCHANGED lockVars
    /\ UNCHANGED <<slotVars, plockVars, launchVars, ensureVars>>
    /\ UNCHANGED sideVars

\* lifecycle.py:267-270  the sleep of kill_process is over: release, return
EvictDone(v) ==
    /\ ~Returning
    /\ vpc[v] = "killed"
    /\ llock' = LockPass(llockq)
    /\ llockq' = LockRest(llockq)
    /\ vpc' = [vpc EXCEPT ![v] = "done"]
    /\ UNCHANGED <<proc, vforce, slotVars, plockVars, launchVars, ensureVars>>
    /\ UNCHANGED sideVars

\* ----------------------------------------------------- EnsureRunning
En(e) == <<"ensure", e>>

\* --served-model-name of the command line built from a recipe
ServedName(rid) == IF rid = "r1" THEN "m1" ELSE IF rid = "r2" THEN "M2" ELSE "none"
\* the "model" field of a chat request: a served name as the recipe spells
\* it, one in another case, a recipe id, and a name no recipe has
ModelNames == {"m1", "m2", "r1", "x"}

\* str.lower() on the names in use
lower(name) == IF name = "M2" THEN "m2" ELSE IF name = "R1" THEN "r1" ELSE name

\* proxy.py:34-43  _find_recipe_by_model
FindRecipeByModel(name) ==
    LET RecipesByModel ==
            {r \in Recipes : lower(ServedName(r)) = lower(name) \/ lower(r) = lower(name)}
    IN IF RecipesByModel = {} THEN NoRecipe ELSE CHOOSE r \in RecipesByModel : TRUE

\* a comparison of the names as they are spelled
AlreadyServesExact(pr, cur, name) == cur # NoPid /\ ServedName(pr[cur].recipe) = name

\* proxy.py:60-62 and 71-72  the running backend already serves the name
AlreadyServes(pr, cur, name) ==
    cur # NoPid /\ lower(ServedName(pr[cur].recipe)) = lower(name)

\* the chat handler has not got a result from _ensure_model_running yet
NoChat == [status |-> 0, detail |-> "", forwarded |-> FALSE]

\* a handler whose catch-all turns the 503 into a 500
ChatResponseMasked(res) == [status |-> 500, detail |-> res, forwarded |-> FALSE]

\* proxy.py:216-227 and 524-525  chat_completions_proxy after the auto-switch:
\* an error string is raised as HTTPException(503, detail) and re-raised as
\* it is; otherwise the request goes on to the upstream gateway
ChatResponse(res) ==
    IF res = "ok"
    THEN [status |-> 0, detail |-> "", forwarded |-> TRUE]
    ELSE [status |-> 503, detail |-> res, forwarded |-> FALSE]

\* leaving the "async with _switch_lock" block with a result
EnsureReturn(e, res, pr) ==
    /\ epc' = [epc EXCEPT ![e] = "done"]
    /\ eresult' = [eresult EXCEPT ![e] = res]
    /\ chat' = [chat EXCEPT ![e] = ChatResponse(res)]
    /\ eticks' = [eticks EXCEPT ![e] = 0]
    /\ eresp' = [eresp EXCEPT ![e] = "none"]
    /\ plock' = LockPass(plockq)
    /\ plockq' = LockRest(plockq)
    /\ proc' = pr

\* proxy.py:54-69  _ensure_model_running up to the lock
EnsureStart(e, name) ==
    /\ ~Returning
    /\ NextCall(e)
    /\ emodel' = [emodel EXCEPT ![e] = name]
    /\ \E cur \in find_inference_process(proc) :
         IF AlreadyServes(proc, cur, name) \/ FindRecipeByModel(name) = NoRecipe
         THEN /\ epc' = [epc EXCEPT ![e] = "done"]
              /\ eresult' = [eresult EXCEPT ![e] = "ok"]
              /\ chat' = [chat EXCEPT ![e] = ChatResponse("ok")]
              /\ UNCHANGED plockVars
         ELSE /\ plock' = LockTake(plock, plockq, En(e))
              /\ plockq' = LockQueue(plock, plockq, En(e))
              /\ epc' = [epc EXCEPT ![e] = "acquire"]
              /\ UNCHANGED <<eresult, chat>>
    /\ UNCHANGED <<proc, epid, eticks, eresp, slotVars, lockVars, launchVars, evictVars>>
    /\ UNCHANGED sideVars

\* proxy.py:69-78  lock held: re-check, graceful evict, sleep
EnsureAcquired(e) ==
    /\ ~Returning
    /\ epc[e] = "acquire"
    /\ plock = En(e)
    /\ \E cur \in find_inference_process(proc), childDies \in BOOLEAN :
         IF AlreadyServes(proc, cur, emodel[e])
         THEN /\ childDies
              /\ EnsureReturn(e, "ok", proc)
         ELSE /\ (cur = NoPid \/ ~proc[cur].child) => childDies
              /\ proc' = evict_model(proc, cur, FALSE, childDies)
              /\ epc' = [epc EXCEPT ![e] = "evicted"]
              /\ UNCHANGED <<plockVars, eresult, chat, eticks, eresp>>
    /\ UNCHANGED <<emodel, epid, slotVars, lockVars, launchVars, evictVars>>
    /\ UNCHANGED sideVars

\* proxy.py:80-83 and process.py:204-226  spawn
EnsureSpawn(e) ==
    /\ ~Returning
    /\ epc[e] = "evicted"
    /\ \E popenOk \in BOOLEAN, hasChild \in BOOLEAN :
         IF popenOk
         THEN /\ proc' = Popen(proc, FindRecipeByModel(emodel[e]), hasChild)
              /\ epid' = [epid EXCEPT ![e] = FreshPid(proc)]
              /\ epc' = [epc EXCEPT ![e] = "spawned"]
              /\ UNCHANGED <<plockVars, eresult, chat, eticks, eresp>>
         ELSE /\ hasChild = FALSE
              /\ EnsureReturn(e, "launch failed", proc)
              /\ UNCHANGED epid
    /\ UNCHANGED <<emodel, slotVars, lockVars, launchVars, evictVars>>
    /\ UNCHANGED sideVars

\* proxy.py:89-102  one pass of the wait loop up to the health request
EnsureLoopBody(e) ==
    IF ~pid_exists(proc, epid[e])
    THEN EnsureReturn(e, "crashed", proc)
    ELSE /\ epc' = [epc EXCEPT ![e] = "health"]
         /\ eresp' = [eresp EXCEPT ![e] = "none"]
         /\ UNCHANGED <<proc, plockVars, eresult, chat, eticks>>

\* process.py:226-232 and proxy.py:81-102  the 3 s sleep of launch_model ends
EnsureAfterSpawn(e) ==
    /\ ~Returning
    /\ epc[e] = "spawned"
    /\ IF ~pid_exists(proc, epid[e])
       THEN EnsureReturn(e, "launch failed", proc)
       ELSE EnsureLoopBody(e)
    /\ UNCHANGED <<emodel, epid, slotVars, lockVars, launchVars, evictVars>>
    /\ UNCHANGED sideVars

\* proxy.py:100-115  the health request is over
EnsureHealthResume(e) ==
    /\ ~Returning
    /\ epc[e] = "health"
    /\ eresp[e] # "none"
    /\ IF eresp[e] = "ok"
       THEN EnsureReturn(e, "ok", proc)
       ELSE /\ eticks' = [eticks EXCEPT ![e] = @ + 1]
            /\ epc' = [epc EXCEPT ![e] = "tick"]
            /\ eresp' = [eresp EXCEPT ![e] = "none"]
            /\ UNCHANGED <<proc, plockVars, eresult, chat>>
    /\ UNCHANGED <<emodel, epid, slotVars, lockVars, launchVars, evictVars>>
    /\ UNCHANGED sideVars

\* proxy.py:89 and 111-112  the 3 s sleep ends: next pass, or timeout
EnsureLoopTop(e) ==
    /\ ~Returning
    /\ epc[e] = "tick"
    /\ IF eticks[e] < MaxEnsureTicks
       THEN EnsureLoopBody(e)
       ELSE EnsureReturn(e, "timeout", proc)
    /\ UNCHANGED <<emodel, epid, slotVars, lockVars, launchVars, evictVars>>
    /\ UNCHANGED sideVars

\* ------------------------------------------------------- environment
\* the backend listening on the inference port answers GET /health
HealthAnswers(pr) == IF \E p \in Pids : pr[p].st = "alive" /\ pr[p].ready
                     THEN {"ok", "fail"} ELSE {"fail"}

\* lifecycle.py:192-198  the health request of a launch completes
LaunchHealthReply(l) ==
    /\ ~Returning
    /\ lpc[l] = "health"
    /\ lresp[l] = "none"
    /\ \E a \in HealthAnswers(proc) : lresp' = [lresp EXCEPT ![l] = a]
    /\ UNCHANGED <<proc, slotVars, lockVars, plockVars, ensureVars, evictVars,
                   lpc, lrecipe, lcancel, lpid, lticks, lresult, lpub, lhist>>
    /\ UNCHANGED sideVars

\* proxy.py:100-107  the health request of an auto-switch completes
EnsureHealthReply(e) ==
    /\ ~Returning
    /\ epc[e] = "health"
    /\ eresp[e] = "none"
    /\ \E a \in HealthAnswers(proc) : eresp' = [eresp EXCEPT ![e] = a]
    /\ UNCHANGED <<proc, slotVars, lockVars, plockVars, launchVars, evictVars,
                   epc, emodel, epid, eticks, eresult, chat>>
    /\ UNCHANGED sideVars

\* the backend finished loading and serves the port (one listener per port)
BackendReady(p) ==
    /\ ~Returning
    /\ proc[p].st = "alive"
    /\ ~proc[p].ready
    /\ \A q \in Pids : ~(proc[q].st = "alive" /\ proc[q].ready)
    /\ proc' = [proc EXCEPT ![p].ready = TRUE]
    /\ UNCHANGED <<slotVars, lockVars, plockVars, launchVars, ensureVars, evictVars>>
    /\ UNCHANGED sideVars

\* the backend exits on its own; its workers may outlive it
BackendExit(p, orphan) ==
    /\ ~Returning
    /\ proc[p].st = "alive"
    /\ orphan => proc[p].child
    /\ proc' = [proc EXCEPT ![p] = IF orphan THEN Orphaned(proc[p]) ELSE Gone]
    /\ UNCHANGED <<slotVars, lockVars, plockVars, launchVars, ensureVars, evictVars>>
    /\ UNCHANGED sideVars

\* the response of a returned handler is sent and its frame is dropped
Respond(c) ==
    /\ lpc[c] = "done" \/ epc[c] = "done" \/ vpc[c] = "done"
    /\ lpc' = [lpc EXCEPT ![c] = IF @ = "done" THEN "closed" ELSE @]
    /\ epc' = [epc EXCEPT ![c] = IF @ = "done" THEN "closed" ELSE @]
    /\ vpc' = [vpc EXCEPT ![c] = IF @ = "done" THEN "closed" ELSE @]
    /\ lrecipe' = [lrecipe EXCEPT ![c] = NoRecipe]
    /\ lcancel' = [lcancel EXCEPT ![c] = FALSE]
    /\ lpid' = [lpid EXCEPT ![c] = NoPid]
    /\ lresult' = [lresult EXCEPT ![c] = NoResult]
    /\ lpub' = [lpub EXCEPT ![c] = <<>>]
    /\ lhist' = [lhist EXCEPT ![c] = NoHist]
    /\ emodel' = [emodel EXCEPT ![c] = "none"]
    /\ epid' = [epid EXCEPT ![c] = NoPid]
    /\ eresult' = [eresult EXCEPT ![c] = "none"]
    /\ chat' = [chat EXCEPT ![c] = NoChat]
    /\ vforce' = [vforce EXCEPT ![c] = FALSE]
    /\ UNCHANGED <<proc, slotVars, lockVars, plockVars, lticks, lresp, eticks, eresp>>
    /\ UNCHANGED sideVars

\* ------------------------------------------------------------ event bus
\* events.py: EventManager.  Neither subscribe() nor publish() awaits while
\* it holds EventManager._lock, so the lock is free whenever a coroutine
\* asks for it and each of the two runs as one step.
Channels == {"default", "logs:s1"}
Subs == 1..MaxSubs

\* a queue that never reports itself full
FullNever(q) == FALSE

\* events.py:104-110  put_nowait raises QueueFull
Full(q) == Len(q) >= maxsize

\* a put at the head of the queue
put_front(q, e) == <<e>> \o q

\* events.py:105  queue.put_nowait(event)
put_nowait(q, e) == Append(q, e)

\* events.py:63-69  subscribe(channel): create the queue and register it
Subscribe(s, ch) ==
    /\ spc[s] = "idle"
    /\ spc' = [spc EXCEPT ![s] = "waiting"]
    /\ schan' = [schan EXCEPT ![s] = ch]
    /\ sfrom' = [sfrom EXCEPT ![s] = Len(published[ch])]
    /\ subscribers' = [subscribers EXCEPT ![ch] = @ \cup {s}]
    /\ UNCHANGED <<now, event_count, queue, received, published, missed>>
    /\ UNCHANGED <<lifecycleVars, repairVars, metricsVars, buildVars>>

\* events.py:72-74  queue.get() returns and the iterator yields the event
Get(s) ==
    /\ spc[s] = "waiting"
    /\ queue[s] # <<>>
    /\ received' = [received EXCEPT ![s] = Append(@, Head(queue[s]))]
    /\ queue' = [queue EXCEPT ![s] = Tail(@)]
    /\ UNCHANGED <<now, subscribers, event_count, spc, schan, published, sfrom, missed>>
    /\ UNCHANGED <<lifecycleVars, repairVars, metricsVars, buildVars>>

\* events.py:75-84  the consumer goes away: the finally block discards the queue
Leave(s) ==
    /\ spc[s] = "waiting"
    /\ spc' = [spc EXCEPT ![s] = "left"]
    /\ subscribers' = [subscribers EXCEPT ![schan[s]] = @ \ {s}]
    /\ UNCHANGED <<now, event_count, queue, schan, received, published, sfrom, missed>>
    /\ UNCHANGED <<lifecycleVars, repairVars, metricsVars, buildVars>>

\* events.py:86-116  publish(Event(...), channel).  events.py:18-25: the id
\* of an Event is the wall clock in ms at construction; n stands for the
\* payload and tells the events apart.
Publish(ch) ==
    LET Constructed == Len(published["default"]) + Len(published["logs:s1"]) IN
    /\ Constructed < MaxEvents
    /\ LET e == [id |-> now, n |-> Constructed + 1]
           subs == subscribers[ch]
           dead_queues == {s \in subs : Full(queue[s])}
       IN /\ published' = [published EXCEPT ![ch] = Append(@, e)]
          /\ IF subs = {}
             THEN UNCHANGED <<event_count, queue, subscribers, missed>>
             ELSE /\ event_count' = event_count + 1
                  /\ queue' = [s \in Subs |->
                                 IF s \in subs /\ ~Full(queue[s])
                                 THEN put_nowait(queue[s], e) ELSE queue[s]]
                  /\ subscribers' = [subscribers EXCEPT ![ch] = @ \ dead_queues]
                  /\ missed' = [s \in Subs |-> missed[s] \/ s \in dead_queues]
    /\ UNCHANGED <<now, spc, schan, received, sfrom>>
    /\ UNCHANGED <<lifecycleVars, repairVars, metricsVars, buildVars>>

\* a millisecond of wall-clock time passes
ClockTick ==
    /\ now < MaxClock
    /\ now' = now + 1
    /\ UNCHANGED <<subscribers, event_count, queue, spc, schan, received, published,
                   sfrom, missed>>
    /\ UNCHANGED <<lifecycleVars, repairVars, metricsVars, buildVars>>


\* ------------------------------------------------- chat stream repairs
\* routes/proxy.py: the streaming passthrough of chat_completions_proxy, its
\* non-streaming repair, and the MCP pattern of the callback handler in
\* config/tool_call_handler.py.  Text is a sequence of tokens: a token is a
\* piece of text the code's substring tests and regular expressions tell
\* apart.  JSON documents are kept as records (their data model), so a
\* json.loads followed by json.dumps keeps the record.
Tok(k, s, n, a) == [k |-> k, server |-> s, name |-> n, args |-> a]
\* plain prose
Txt == Tok("txt", "", "", "")
ToolOpen == Tok("<tool_call>", "", "", "")
ToolClose == Tok("</tool_call>", "", "", "")
\* the text {"name": "n", "arguments": a}
Json(n, a) == Tok("json", "", n, a)
\* the text <use_mcp_tool><server_name>s</server_name><tool_name>t</tool_name>
\* <arguments>a</arguments></use_mcp_tool>
Mcp(s, t, a) == Tok("mcp", s, t, a)

\* argument texts: a JSON object as a model writes it, the same object as
\* json.dumps writes it, and braces around something that is not JSON
ArgCompact == "{\"q\":\"x\"}"
ArgDumped == "{\"q\": \"x\"}"
\* json.loads(a) succeeds
JsonValid(a) == a \in {ArgCompact, ArgDumped}
\* json.dumps(json.loads(a))
Reserialize(a) == ArgDumped

\* str.strip() on the names in use
strip(s) == IF s = " " THEN "" ELSE IF s = " search" THEN "search" ELSE s

\* substring tests: '<think>' in text, '"name"' in text, ...
Has(text, k) == \E i \in 1..Len(text) : text[i].k = k
\* position of the first token of a kind (text.split(tag, 1))
First(text, k) == CHOOSE i \in 1..Len(text) : text[i].k = k /\ \A j \in 1..(i - 1) : text[j].k # k
Before(text, k) == SubSeq(text, 1, First(text, k) - 1)
After(text, k) == SubSeq(text, First(text, k) + 1, Len(text))

\* one tool call of an OpenAI message: function.name and function.arguments
Call(n, a) == [name |-> n, arguments |-> a]

\* proxy.py:118-194  parse_tool_calls_from_content
\*   ProxyMcpCalls (130-145), pattern 0, the MCP form: tool_name and
\*     arguments, stripped
\*   DanglingCalls (147-161), pattern 1: {"name": .., "arguments": {..}} right
\*     before a </tool_call>
\*   BalancedCalls (163-180), pattern 2: <tool_call>{json}</tool_call>, parsed
\*   RawCalls (182-192), pattern 3: raw JSON with name and arguments
parse_tool_calls_from_content(content) ==
    LET JsonAt(idx) ==
            SelectSeq([i \in 1..Len(content) |->
                          IF i \in idx THEN content[i] ELSE Txt],
                      LAMBDA tok : tok.k = "json")
        ProxyMcpCalls ==
            LET m == SelectSeq(content, LAMBDA tok : tok.k = "mcp")
            IN [i \in 1..Len(m) |-> Call(strip(m[i].name), strip(m[i].args))]
        DanglingCalls ==
            LET m == JsonAt({i \in 1..(Len(content) - 1) :
                               content[i].k = "json" /\ content[i + 1].k = "</tool_call>"})
            IN [i \in 1..Len(m) |-> Call(m[i].name, m[i].args)]
        BalancedCalls ==
            LET m == JsonAt({i \in 2..(Len(content) - 1) :
                               /\ content[i - 1].k = "<tool_call>"
                               /\ content[i].k = "json"
                               /\ content[i + 1].k = "</tool_call>"
                               /\ JsonValid(content[i].args)})
            IN [i \in 1..Len(m) |-> Call(m[i].name, Reserialize(m[i].args))]
        RawCalls ==
            LET m == SelectSeq(content, LAMBDA tok : tok.k = "json")
            IN [i \in 1..Len(m) |-> Call(m[i].name, m[i].args)]
        p1 == IF Has(content, "</tool_call>") THEN DanglingCalls ELSE <<>>
        p2 == IF p1 = <<>> /\ Has(content, "<tool_call>") THEN BalancedCalls ELSE p1
    IN IF ProxyMcpCalls # <<>> THEN ProxyMcpCalls
       ELSE IF p2 = <<>> /\ Has(content, "json") THEN RawCalls ELSE p2

\* tool_call_handler.py:332-336  server__tool, or the tool alone
McpFunctionName(s, t) == IF strip(s) # "" THEN strip(s) \o "__" \o strip(t) ELSE strip(t)

\* tool_call_handler.py:324-374  _parse_tool_calls, pattern 0: the arguments
\* are parsed and written again; a match whose arguments are not JSON, also
\* after the repair attempt, gives no tool call
HandlerMcpCalls(content) ==
    LET m == SelectSeq(content, LAMBDA tok : tok.k = "mcp" /\ JsonValid(strip(tok.args)))
    IN [i \in 1..Len(m) |-> Call(McpFunctionName(m[i].server, m[i].name),
                                 Reserialize(strip(m[i].args)))]

\* proxy.py:463-465 and 505-511  the text shows a tool-call signature
has_tool_pattern(content) ==
    Has(content, "</tool_call>") \/ Has(content, "<tool_call>") \/ Has(content, "mcp")
        \/ Has(content, "json")

\* one SSE data line of the upstream stream: the fields of choices[0].delta
\* the repairs look at.  rc is the text of reasoning_content (<<>> when the
\* key is missing), tc_key says whether the line has a "tool_calls" key.
Delta(role, reasoning, rc, content, tc_key, tool_calls, finish) ==
    [role |-> role, reasoning |-> reasoning, rc |-> rc, content |-> content,
     tc_key |-> tc_key, tool_calls |-> tool_calls, finish_reason |-> finish]

\* the line "data: [DONE]": it holds no JSON, the repairs skip it
Done == Delta("", FALSE, <<>>, <<>>, FALSE, <<>>, "[DONE]")
\* a tool_calls entry with "function": null, which has no name and no
\* arguments to read
NullFunction == Call("null", "null")
\* proxy.py:345-432  what makes a repair of the line raise: json.loads on a
\* line that is not complete (every repair that runs, and the accumulation),
\* func.get on a function that is null (the tool-call repair, 313-314, and
\* the accumulation, 421-423)
Raises(d) ==
    \/ d.finish_reason = "cut"
    \/ \E i \in 1..Len(d.tool_calls) : d.tool_calls[i] = NullFunction

\* what the upstream may send in a stream
StreamContents ==
    {<<>>, <<Txt>>, <<Tok("<think>", "", "", ""), Txt>>,
     <<Txt, Tok("</think>", "", "", ""), Txt>>, <<Json("f", ArgCompact)>>,
     <<Mcp("exa", "search", ArgCompact)>>,
     <<ToolOpen, Json("f", ArgCompact), ToolClose>>}
\* the reasoning / reasoning_content fields and the tool_calls field of a
\* line, and the line an upstream gateway bug emits: "role":"user" with
\* "tool_calls":[]
\* Next to them: a line whose JSON is cut by the byte chunking (written as
\* finish_reason "cut"), lines with a tool_calls entry whose function is
\* null, and the terminator.
Chunks ==
    {Delta("assistant", r[1], r[2], c, t[1], t[2], "") :
        r \in {<<FALSE, <<>>>>, <<TRUE, <<Txt>>>>, <<FALSE, <<Txt>>>>},
        c \in StreamContents,
        t \in {<<FALSE, <<>>>>, <<TRUE, <<>>>>, <<TRUE, <<Call("", ArgCompact)>>>>,
               <<TRUE, <<Call("f", ArgCompact)>>>>}}
    \cup {Delta("user", FALSE, <<>>, <<Txt>>, TRUE, <<>>, "")}
    \cup {Delta("assistant", TRUE, <<Txt>>, <<Txt>>, FALSE, <<>>, "cut")}
    \cup {Delta("assistant", r, <<Txt>>, <<Txt>>, TRUE, <<NullFunction>>, "") : r \in BOOLEAN}
    \cup {Done}

\* what a complete assistant message or a model output may contain
Contents ==
    StreamContents
    \cup {<<Mcp(s, t, a)>> : s \in {"", "exa", " "}, t \in {"search", " search"},
                             a \in {ArgCompact, ArgDumped, "{oops}"}}
    \cup {<<Txt, Mcp("exa", "search", ArgCompact), Mcp("", "search", ArgDumped)>>,
          <<Json("f", ArgCompact), ToolClose>>,
          <<ToolOpen, Json("f", ArgCompact), ToolClose>>}

\* proxy.py:289-295  tool_call_buffer of a request
NoBuffer ==
    [content |-> <<>>, tool_args |-> <<>>, tool_name |-> "",
     has_malformed_tool_calls |-> FALSE, tool_calls_found |-> FALSE]

\* proxy.py:345  '"reasoning":' and '"reasoning_content":' in the chunk
DupTrigger(d) == d.reasoning /\ d.rc # <<>>
\* proxy.py:387  '"tool_calls"', '<tool_call>' or a "name" key in the chunk
ToolTrigger(d) == d.tc_key \/ Has(d.content, "<tool_call>") \/ Has(d.rc, "<tool_call>")

\* proxy.py:232-287  parse_think_tags_from_content: the repaired delta and
\* the new value of think_state["in_thinking"]
parse_think_tags_from_content(d, thinking) ==
    LET c == d.content IN
    IF c = <<>> \/ d.rc # <<>> THEN [d |-> d, t |-> thinking]
    ELSE IF Has(c, "</think>") /\ ~Has(c, "<think>") /\ ~thinking
    THEN [d |-> [d EXCEPT !.rc = Before(c, "</think>"), !.content = After(c, "</think>")],
          t |-> thinking]
    ELSE IF Has(c, "<think>")
    THEN LET before == Before(c, "<think>")
             after == After(c, "<think>")
         IN IF Has(after, "</think>")
            THEN [d |-> [d EXCEPT !.rc = Before(after, "</think>"),
                                  !.content = before \o After(after, "</think>")],
                  t |-> FALSE]
            ELSE [d |-> [d EXCEPT !.rc = after, !.content = before], t |-> TRUE]
    ELSE IF thinking
    THEN IF Has(c, "</think>")
         THEN [d |-> [d EXCEPT !.rc = Before(c, "</think>"), !.content = After(c, "</think>")],
               t |-> FALSE]
         ELSE [d |-> [d EXCEPT !.rc = c, !.content = <<>>], t |-> TRUE]
    ELSE [d |-> d, t |-> thinking]

\* proxy.py:323 and 448  the first "name": "..." in the buffered text
NameInText(text) == IF Has(text, "json") THEN text[First(text, "json")].name ELSE ""

\* proxy.py:297-333  fix_malformed_tool_calls: the repaired delta and the
\* tool_call_buffer it leaves.  FixName (315-328): a tool call with an empty
\* name gets the buffered one.
fix_malformed_tool_calls(d, buf) ==
    LET buffered == buf.content \o d.content
        FixName(tc) ==
            IF strip(tc.name) = ""
                  /\ (Has(buffered, "<tool_call>") \/ Has(buffered, "json"))
                  /\ NameInText(buffered) # ""
            THEN [tc EXCEPT !.name = NameInText(buffered)]
            ELSE tc
    IN [d |-> [d EXCEPT !.tool_calls = [i \in 1..Len(d.tool_calls) |->
                                           FixName(d.tool_calls[i])]],
        buf |-> [buf EXCEPT !.content = buffered,
                            !.has_malformed_tool_calls =
                                @ \/ \E i \in 1..Len(d.tool_calls) :
                                        strip(d.tool_calls[i].name) = ""]]

\* the fragments of function.arguments, concatenated
RECURSIVE Concat(_)
Concat(frags) == IF frags = <<>> THEN "" ELSE Head(frags) \o Concat(Tail(frags))

\* proxy.py:436-468  parsed_tools at the end of the stream
\*   FromStreamedArgs (438-459): a tool call rebuilt from streamed argument
\*     fragments
\*   then (461-468) tool calls parsed from the accumulated text
ParsedTools(buf) ==
    LET name == IF buf.tool_name # "" THEN buf.tool_name ELSE NameInText(buf.content)
        FromStreamedArgs ==
            IF ~buf.tool_calls_found /\ buf.tool_args # <<>> /\ name # ""
            THEN <<Call(name, Concat(buf.tool_args))>>
            ELSE <<>>
    IN IF FromStreamedArgs = <<>> /\ ~buf.tool_calls_found /\ buf.content # <<>>
             /\ has_tool_pattern(buf.content)
       THEN parse_tool_calls_from_content(buf.content)
       ELSE FromStreamedArgs

\* proxy.py:340-434  the body of the chunk loop for one chunk that is not
\* dropped: the chunk delivered, in_thinking and tool_call_buffer after it.
\* Each repair parses chunk_str, the chunk as the upstream sent it, and
\* assigns its result to chunk.
\*   345-365: the reasoning key of the delta is deleted
\*   367-385: '<think>' in the chunk, or in_thinking
\*   387-405: the tool-call repair
\*   407-432: content, reasoning and tool-call fragments of the chunk as the
\*     upstream sent it are accumulated
\* A repair that raises leaves chunk as the repairs before it left it
\* (except: pass); what it wrote to tool_call_buffer before raising stays.
RepairChunk(d, thinking, buf) ==
    IF d.finish_reason = "cut" THEN [chunk |-> d, thinking |-> thinking, buf |-> buf]
    ELSE
    LET c1 == IF DupTrigger(d) THEN [d EXCEPT !.reasoning = FALSE] ELSE d
        th == IF Has(d.content, "<think>") \/ Has(d.rc, "<think>") \/ thinking
              THEN parse_think_tags_from_content(d, thinking)
              ELSE [d |-> c1, t |-> thinking]
        fx == IF ToolTrigger(d)
              THEN IF Raises(d)
                   THEN [d |-> th.d, buf |-> [buf EXCEPT !.content = @ \o d.content]]
                   ELSE fix_malformed_tool_calls(d, buf)
              ELSE [d |-> th.d, buf |-> buf]
        \* the entries read before the one that raises
        read == IF Raises(d)
                THEN SubSeq(d.tool_calls, 1,
                            (CHOOSE i \in 1..Len(d.tool_calls) :
                                /\ d.tool_calls[i] = NullFunction
                                /\ \A j \in 1..(i - 1) : d.tool_calls[j] # NullFunction) - 1)
                ELSE d.tool_calls
        named == SelectSeq(read, LAMBDA tc : tc.name # "")
        args == SelectSeq(read, LAMBDA tc : tc.arguments # "")
    IN [chunk |-> fx.d, thinking |-> th.t,
        buf |-> [fx.buf EXCEPT
                   !.content = @ \o d.content \o d.rc,
                   !.tool_name = IF named # <<>> THEN named[Len(named)].name ELSE @,
                   !.tool_calls_found = @ \/ named # <<>>,
                   !.tool_args = @ \o [i \in 1..Len(args) |-> args[i].arguments]]]

\* proxy.py:495-518  the repair of a non-streaming response
non_streaming_repair(m) ==
    LET full_content == m.content \o m.rc
    IN IF m.tool_calls = <<>> /\ full_content # <<>> /\ has_tool_pattern(full_content)
             /\ parse_tool_calls_from_content(full_content) # <<>>
       THEN [m EXCEPT !.tool_calls = parse_tool_calls_from_content(full_content),
                      !.finish_reason = "tool_calls"]
       ELSE m

NoMessage == [content |-> <<>>, rc |-> <<>>, tool_calls |-> <<>>, finish_reason |-> ""]

\* proxy.py:340-434  the upstream sends a chunk
StreamChunk(d) ==
    /\ rphase \in {"idle", "stream"}
    /\ Len(upstream) < MaxChunks
    /\ IF upstream = <<>> THEN TRUE
       ELSE upstream[Len(upstream)] # Done                   \* nothing follows the terminator
    /\ rphase' = "stream"
    /\ upstream' = Append(upstream, d)
    /\ IF d.role = "user" /\ d.tc_key /\ d.tool_calls = <<>>    \* 342: dropped
       THEN UNCHANGED <<in_thinking, tool_call_buffer, delivered>>
       ELSE LET r == RepairChunk(d, in_thinking, tool_call_buffer)
            IN /\ in_thinking' = r.thinking
               /\ tool_call_buffer' = r.buf
               /\ delivered' = Append(delivered, [src |-> Len(upstream) + 1, chunk |-> r.chunk])
    /\ http_status' = 200
    /\ UNCHANGED <<request, reply>>
    /\ UNCHANGED <<lifecycleVars, busVars, metricsVars, buildVars>>

\* proxy.py:436-480  the upstream closes the stream
StreamEnd ==
    /\ rphase \in {"idle", "stream"}
    /\ rphase' = "ended"
    /\ delivered' = IF ParsedTools(tool_call_buffer) # <<>>
                    THEN Append(delivered,
                                [src |-> 0,
                                 chunk |-> Delta("assistant", FALSE, <<>>, <<>>, TRUE,
                                                 ParsedTools(tool_call_buffer),
                                                 "tool_calls")])
                    ELSE delivered
    /\ http_status' = 200
    /\ UNCHANGED <<in_thinking, tool_call_buffer, upstream, request, reply>>
    /\ UNCHANGED <<lifecycleVars, busVars, metricsVars, buildVars>>

\* proxy.py:490-523  a non-streaming request: the upstream's JSON is repaired
NonStreaming(m) ==
    /\ rphase = "idle"
    /\ rphase' = "json"
    /\ request' = m
    /\ reply' = non_streaming_repair(m)
    /\ http_status' = 200
    /\ UNCHANGED <<in_thinking, tool_call_buffer, upstream, delivered>>
    /\ UNCHANGED <<lifecycleVars, busVars, metricsVars, buildVars>>

\* tool_call_handler.py:276-278  <tool_call>...</tool_call> blocks, and an
\* unclosed <tool_call> with everything after it, are removed
RECURSIVE DropToolBlocks(_)
DropToolBlocks(text) ==
    IF ~Has(text, "<tool_call>") THEN text
    ELSE LET rest == After(text, "<tool_call>")
         IN IF Has(rest, "</tool_call>")
            THEN Before(text, "<tool_call>") \o DropToolBlocks(After(rest, "</tool_call>"))
            ELSE Before(text, "<tool_call>")

\* tool_call_handler.py:262-288  _strip_tool_call_content: MCP blocks,
\* tool_call blocks and raw JSON tool calls are removed
strip_tool_call_content(content) ==
    SelectSeq(DropToolBlocks(SelectSeq(content, LAMBDA tok : tok.k # "mcp")),
              LAMBDA tok : tok.k # "json")

\* tool_call_handler.py:477-554  async_post_call_success_hook on a message
\* without tool calls whose content holds MCP blocks: the parsed calls are
\* set, finish_reason becomes tool_calls and the markup is stripped
post_call_repair(m) ==
    IF HandlerMcpCalls(m.content) # <<>>
    THEN [m EXCEPT !.tool_calls = HandlerMcpCalls(m.content),
                   !.finish_reason = "tool_calls",
                   !.content = strip_tool_call_content(m.content)]
    ELSE m

\* tool_call_handler.py:477-554  the callback handler repairs a model output
\* that holds MCP blocks
HookParse(c) ==
    /\ rphase = "idle"
    /\ rphase' = "hook"
    /\ request' = [NoMessage EXCEPT !.content = c]
    /\ reply' = post_call_repair([NoMessage EXCEPT !.content = c])
    /\ UNCHANGED http_status
    /\ UNCHANGED <<in_thinking, tool_call_buffer, upstream, delivered>>
    /\ UNCHANGED <<lifecycleVars, busVars, metricsVars, buildVars>>

\* proxy.py:335-339, 482-493, 524-530  the upstream refuses the connection.
\* Without stream, client.post raises inside the try block of the handler.
\* With stream, the handler has returned its StreamingResponse (status 200)
\* before stream_response opens the connection, and the ConnectError is
\* raised in the generator, outside the handler's try block: the body ends
\* without a chunk.
UpstreamRefused(is_streaming) ==
    /\ rphase = "idle"
    /\ rphase' = IF is_streaming THEN "stream_refused" ELSE "json_refused"
    /\ http_status' = IF is_streaming THEN 200 ELSE 503
    /\ UNCHANGED <<in_thinking, tool_call_buffer, upstream, delivered, request, reply>>
    /\ UNCHANGED <<lifecycleVars, busVars, metricsVars, buildVars>>

RepairInitThinking ==
    /\ rphase = "idle"
    /\ in_thinking = TRUE
    /\ tool_call_buffer = NoBuffer
    /\ upstream = <<>>
    /\ delivered = <<>>
    /\ request = NoMessage
    /\ reply = NoMessage
    /\ http_status = 0

RepairInit ==
    /\ rphase = "idle"
    /\ in_thinking = FALSE
    /\ tool_call_buffer = NoBuffer
    /\ upstream = <<>>
    /\ delivered = <<>>
    /\ request = NoMessage
    /\ reply = NoMessage
    /\ http_status = 0

\* ------------------------------------------------------ lifetime metrics
\* app.py broadcast_updates and store.py LifetimeMetricsStore.  Energy is
\* counted in watt-seconds and time in seconds, so that the sums stay
\* integers; the store's rows are REAL.
LifetimeKeys == {"tokens_total", "requests_total", "energy_wh", "uptime_seconds"}
\* store.py:490-503  increment
increment(store, key, delta) == [store EXCEPT ![key] = @ + delta]

\* a counter update that adds the difference whatever its sign
TrackSigned(current, last) == [add |-> current - last, last |-> current]
\* app.py:263-270  a counter of the backend against the value kept from the
\* previous iteration: what is added to the lifetime row, and the value kept
Track(current, last) ==
    IF current > last THEN [add |-> current - last, last |-> current]
    ELSE [add |-> 0, last |-> last]

\* app.py:196-302  one iteration of the loop of broadcast_updates.
\* 219-228: energy always, uptime while a backend runs, both only for a
\* plausible elapsed time.
MetricsTick(elapsed, power, scrape) ==
    /\ mticks < MaxMetricTicks
    /\ mticks' = mticks + 1
    /\ LET s0 == increment(lifetime, "energy_wh", power * elapsed)
           s1 == IF elapsed > 0 /\ elapsed < 10
                 THEN IF backend_running
                      THEN increment(s0, "uptime_seconds", elapsed) ELSE s0
                 ELSE lifetime
           t == Track(backend_tokens, last_tokens_total)
           r == Track(backend_requests, last_requests_total)
       IN IF backend_running
          THEN IF scrape = "ok"
               THEN /\ lifetime' = increment(increment(s1, "tokens_total", t.add),
                                             "requests_total", r.add)
                    /\ last_tokens_total' = t.last
                    /\ last_requests_total' = r.last
                    /\ reported_tokens' = backend_tokens
               ELSE /\ lifetime' = s1
                    /\ UNCHANGED <<last_tokens_total, last_requests_total, reported_tokens>>
          ELSE /\ lifetime' = s1
               /\ last_tokens_total' = 0
               /\ last_requests_total' = 0
               /\ UNCHANGED reported_tokens
    /\ UNCHANGED <<backend_running, backend_tokens, backend_requests, restarts>>
    /\ UNCHANGED <<lifecycleVars, busVars, repairVars, buildVars>>

\* app.py:171-176, 189-194  the controller stops and starts again on the same
\* database: the loop's locals start from zero, the rows are kept
ControllerRestart ==
    /\ restarts < MaxRestarts
    /\ restarts' = restarts + 1
    /\ last_tokens_total' = 0
    /\ last_requests_total' = 0
    /\ UNCHANGED <<lifetime, backend_running, backend_tokens, backend_requests,
                   reported_tokens, mticks>>
    /\ UNCHANGED <<lifecycleVars, busVars, repairVars, buildVars>>

\* the backend serves a request of n tokens
BackendServes(n) ==
    /\ backend_running
    /\ backend_tokens + n <= MaxServed
    /\ backend_tokens' = backend_tokens + n
    /\ backend_requests' = backend_requests + 1
    /\ UNCHANGED <<lifetime, last_tokens_total, last_requests_total, backend_running,
                   reported_tokens, mticks, restarts>>
    /\ UNCHANGED <<lifecycleVars, busVars, repairVars, buildVars>>

\* the backend process goes away
BackendStops ==
    /\ backend_running
    /\ backend_running' = FALSE
    /\ UNCHANGED <<lifetime, last_tokens_total, last_requests_total, backend_tokens,
                   backend_requests, reported_tokens, mticks, restarts>>
    /\ UNCHANGED <<lifecycleVars, busVars, repairVars, buildVars>>

\* a backend process starts: its counters start from zero
BackendStarts ==
    /\ ~backend_running
    /\ backend_running' = TRUE
    /\ backend_tokens' = 0
    /\ backend_requests' = 0
    /\ reported_tokens' = -1
    /\ UNCHANGED <<lifetime, last_tokens_total, last_requests_total, mticks, restarts>>
    /\ UNCHANGED <<lifecycleVars, busVars, repairVars, buildVars>>

\* ----------------------------------------------------- command builder
\* backends.py build_vllm_command.  A key of extra_args is its words, the
\* separator after each word but the last, and whether it is in upper case;
\* a command is a sequence of items, each a flag ("--" and a key) or a value.
Key(words, sep, upper) ==
    [words |-> words, seps |-> [i \in 1..(Len(words) - 1) |-> sep], upper |-> upper]
\* str.replace(a, b) and str.lower() on a key
replace(key, a, b) ==
    [key EXCEPT !.seps = [i \in 1..Len(key.seps) |-> IF key.seps[i] = a THEN b ELSE key.seps[i]]]
key_lower(key) == [key EXCEPT !.upper = FALSE]

Val(v) == [flag |-> FALSE, key |-> [words |-> <<>>, seps |-> <<>>, upper |-> FALSE], v |-> v]
\* f"--{key}"
Flag(key) == [flag |-> TRUE, key |-> key, v |-> ""]
\* a flag build_vllm_command writes itself, such as --tool-call-parser
Opt(words) == Flag(Key(words, "-", FALSE))

\* backends.py:206  INTERNAL_KEYS
INTERNAL_KEYS ==
    {Key(<<"venv", "path">>, "_", FALSE), Key(<<"env", "vars">>, "_", FALSE),
     Key(<<"cuda", "visible", "devices">>, "_", FALSE), Key(<<"description">>, "_", FALSE),
     Key(<<"tags">>, "_", FALSE), Key(<<"status">>, "_", FALSE)}

\* the entries of extra_args: the values are True, False, None and a string;
\* venv_path is a directory or missing, a switch is on or off, a plain option
\* takes any value, the others are given a string
ExtraEntries ==
    LET ExtraKeys ==
            {Key(<<"venv", "path">>, "_", FALSE), Key(<<"venv", "path">>, "-", FALSE),
             Key(<<"cuda", "visible", "devices">>, "_", TRUE),
             Key(<<"env", "vars">>, "-", FALSE), Key(<<"status">>, "_", FALSE),
             Key(<<"enable", "auto", "tool", "choice">>, "_", FALSE),
             Key(<<"enable", "auto", "tool", "choice">>, "-", FALSE),
             Key(<<"tool", "call", "parser">>, "-", FALSE),
             Key(<<"enforce", "eager">>, "_", FALSE)}
    IN {e \in [key : ExtraKeys, value : {"True", "False", "None", "text"}] :
          /\ e.key.words = <<"venv", "path">> => e.value \in {"text", "None"}
          /\ e.key.words = <<"enable", "auto", "tool", "choice">>
                => e.value \in {"True", "False"}
          /\ e.key.words \in {<<"cuda", "visible", "devices">>, <<"env", "vars">>,
                              <<"status">>, <<"tool", "call", "parser">>}
                => e.value = "text"}
\* extra_args in insertion order, of at most n entries
RECURSIVE ExtraArgs(_)
ExtraArgs(n) ==
    IF n = 0 THEN {<<>>}
    ELSE ExtraArgs(n - 1)
         \cup {Append(x, e) : x \in {y \in ExtraArgs(n - 1) : Len(y) = n - 1}, e \in ExtraEntries}

\* the recipes the builder is given: a model path for each family the parser
\* detection tells apart, what exists under venv_path/bin, extra_args with
\* distinct keys; the other fields have their defaults
BuildRecipes ==
    [model_path : {"/models/foo", "/models/INTELLECT-3", "/models/MiroThinker"},
     tool_call_parser : {"", "mistral"}, venv : {"none", "python", "vllm"},
     chat_kwargs : BOOLEAN,
     extra_args : {x \in ExtraArgs(MaxExtra) :
                     \A i, j \in 1..Len(x) : i # j => x[i].key # x[j].key}]

\* backends.py:29-39  _get_extra_arg: the key as given, in kebab-case, in
\* snake_case; "None" when none is there
get_extra_arg(extra_args, key) ==
    LET Has_key(k) == \E i \in 1..Len(extra_args) : extra_args[i].key = k
        Value_of(k) == extra_args[CHOOSE i \in 1..Len(extra_args) : extra_args[i].key = k].value
    IN IF Has_key(key) THEN Value_of(key)
       ELSE IF Has_key(replace(key, "_", "-")) THEN Value_of(replace(key, "_", "-"))
       ELSE IF Has_key(replace(key, "-", "_")) THEN Value_of(replace(key, "-", "_"))
       ELSE "None"

\* backends.py:42-55  _get_python_path: "" when there is none
get_python_path(recipe) ==
    IF get_extra_arg(recipe.extra_args, Key(<<"venv", "path">>, "_", FALSE)) = "text"
          /\ recipe.venv \in {"python", "vllm"}
    THEN "venv/bin/python" ELSE ""

\* backends.py:92-111  _get_default_tool_call_parser, "" for None
get_default_tool_call_parser(recipe) ==
    IF recipe.model_path = "/models/MiroThinker" THEN ""
    ELSE IF recipe.model_path = "/models/INTELLECT-3" THEN "hermes"
    ELSE ""
\* backends.py:58-87  _get_default_reasoning_parser, "" for None
get_default_reasoning_parser(recipe) ==
    IF recipe.model_path \in {"/models/INTELLECT-3", "/models/MiroThinker"}
    THEN "deepseek_r1" ELSE ""

\* a normalisation that only lowers the case
normalized_key_lower(key) == key_lower(key)
\* backends.py:210  normalized_key
normalized_key(key) == key_lower(replace(key, "-", "_"))

\* a test that never finds the flag
flag_in_cmd_never(flag, c) == FALSE
\* backends.py:216  flag in cmd
flag_in_cmd(flag, c) == \E i \in 1..Len(c) : c[i] = flag

\* backends.py:209-241  what one entry of extra_args adds to the command
append_extra_arg(c, e) ==
    LET flag == Flag(replace(e.key, "_", "-")) IN
    IF normalized_key(e.key) \in INTERNAL_KEYS THEN c
    ELSE IF flag_in_cmd(flag, c) THEN c
    ELSE IF e.value = "True" THEN Append(c, flag)
    ELSE IF e.value = "False"
    THEN IF normalized_key(e.key) # Key(<<"enable", "expert", "parallelism">>, "_", FALSE)
         THEN Append(c, flag) ELSE c
    ELSE IF e.value = "None" THEN c
    ELSE c \o <<flag, Val(e.value)>>

\* backends.py:199-241  _append_extra_args
RECURSIVE append_extra_args(_, _)
append_extra_args(c, extra_args) ==
    IF extra_args = <<>> THEN c
    ELSE append_extra_args(append_extra_arg(c, Head(extra_args)), Tail(extra_args))

\* backends.py:114-166  build_vllm_command
build_vllm_command(recipe) ==
    LET python_path == get_python_path(recipe)
        head == IF python_path = "" THEN <<Val("vllm"), Val("serve")>>
                ELSE IF recipe.venv = "vllm" THEN <<Val("venv/bin/vllm"), Val("serve")>>
                ELSE <<Val(python_path), Val("-m"), Val("vllm.entrypoints.openai.api_server")>>
        tool_call_parser == IF recipe.tool_call_parser # "" THEN recipe.tool_call_parser
                            ELSE get_default_tool_call_parser(recipe)
        reasoning_parser == get_default_reasoning_parser(recipe)
        c1 == head \o <<Val(recipe.model_path), Opt(<<"host">>), Val("0.0.0.0"),
                        Opt(<<"port">>), Val("8000"),
                        Opt(<<"max", "model", "len">>), Val("32768"),
                        Opt(<<"gpu", "memory", "utilization">>), Val("0.9"),
                        Opt(<<"max", "num", "seqs">>), Val("256"),
                        Opt(<<"trust", "remote", "code">>)>>
        c2 == IF tool_call_parser # ""
              THEN c1 \o <<Opt(<<"tool", "call", "parser">>), Val(tool_call_parser),
                           Opt(<<"enable", "auto", "tool", "choice">>)>>
              ELSE c1
        c3 == IF reasoning_parser # ""
              THEN c2 \o <<Opt(<<"reasoning", "parser">>), Val(reasoning_parser)>>
              ELSE c2
        c4 == IF recipe.chat_kwargs
              THEN c3 \o <<Opt(<<"default", "chat", "template", "kwargs">>), Val("{...}")>>
              ELSE c3
    IN append_extra_args(c4, recipe.extra_args)

\* a caller builds the command of a recipe
BuildVllm(recipe) ==
    /\ bphase = "idle"
    /\ bphase' = "built"
    /\ build_recipe' = recipe
    /\ cmd' = build_vllm_command(recipe)
    /\ UNCHANGED <<lifecycleVars, busVars, repairVars, metricsVars>>

\* ------------------------------------------------------ specification
Init ==
    /\ now = 0
    /\ subscribers = [ch \in Channels |-> {}]
    /\ event_count = 0
    /\ queue = [s \in Subs |-> <<>>]
    /\ spc = [s \in Subs |-> "idle"]
    /\ schan = [s \in Subs |-> "default"]
    /\ received = [s \in Subs |-> <<>>]
    /\ published = [ch \in Channels |-> <<>>]
    /\ sfrom = [s \in Subs |-> 0]
    /\ missed = [s \in Subs |-> FALSE]
    /\ RepairInit
    /\ lifetime = [k \in LifetimeKeys |-> 0]     \* store.py:451-464  _migrate
    /\ last_tokens_total = 0
    /\ last_requests_total = 0
    /\ backend_running = FALSE
    /\ backend_tokens = 0
    /\ backend_requests = 0
    /\ reported_tokens = -1
    /\ mticks = 0
    /\ restarts = 0
    /\ bphase = "idle"
    /\ build_recipe = [model_path |-> "", tool_call_parser |-> "", venv |-> "none",
                       chat_kwargs |-> FALSE, extra_args |-> <<>>]
    /\ cmd = <<>>
    /\ proc = [p \in Pids |-> [st |-> "unborn", child |-> FALSE, ready |-> FALSE,
                               recipe |-> NoRecipe]]
    /\ launching = NoRecipe
    /\ cancelMap = [r \in Recipes |-> NoLaunch]
    /\ llock = NoCaller
    /\ llockq = <<>>
    /\ plock = NoCaller
    /\ plockq = <<>>
    /\ lpc = [l \in LaunchIds |-> "idle"]
    /\ lrecipe = [l \in LaunchIds |-> NoRecipe]
    /\ lcancel = [l \in LaunchIds |-> FALSE]
    /\ lpid = [l \in LaunchIds |-> NoPid]
    /\ lticks = [l \in LaunchIds |-> 0]
    /\ lresp = [l \in LaunchIds |-> "none"]
    /\ lresult = [l \in LaunchIds |-> NoResult]
    /\ lpub = [l \in LaunchIds |-> <<>>]
    /\ lhist = [l \in LaunchIds |-> NoHist]
    /\ epc = [e \in EnsureIds |-> "idle"]
    /\ emodel = [e \in EnsureIds |-> "none"]
    /\ epid = [e \in EnsureIds |-> NoPid]
    /\ eticks = [e \in EnsureIds |-> 0]
    /\ eresp = [e \in EnsureIds |-> "none"]
    /\ eresult = [e \in EnsureIds |-> "none"]
    /\ chat = [e \in EnsureIds |-> NoChat]
    /\ vpc = [v \in EvictIds |-> "idle"]
    /\ vforce = [v \in EvictIds |-> FALSE]

Next ==
    \/ \E l \in LaunchIds, r \in Recipes : LaunchStart(l, r)
    \/ \E l \in LaunchIds : LaunchRegister(l)
    \/ \E l \in LaunchIds : LaunchLockTimeout(l)
    \/ \E l \in LaunchIds : LaunchAcquire2(l)
    \/ \E l \in LaunchIds : LaunchAcquired(l)
    \/ \E l \in LaunchIds : LaunchAfterEvict(l)
    \/ \E l \in LaunchIds : LaunchAfterSpawn(l)
    \/ \E l \in LaunchIds : LaunchHealthReply(l)
    \/ \E l \in LaunchIds : LaunchHealthResume(l)
    \/ \E l \in LaunchIds : LaunchLoopTop(l)
    \/ \E l \in LaunchIds : LaunchAfterTimeoutKill(l)
    \/ \E v \in EvictIds : EvictStart(v)
    \/ \E v \in EvictIds, f \in BOOLEAN : EvictAcquired(v, f)
    \/ \E v \in EvictIds : EvictDone(v)
    \/ \E e \in EnsureIds, m \in ModelNames : EnsureStart(e, m)
    \/ \E e \in EnsureIds : EnsureAcquired(e)
    \/ \E e \in EnsureIds : EnsureSpawn(e)
    \/ \E e \in EnsureIds : EnsureAfterSpawn(e)
    \/ \E e \in EnsureIds : EnsureHealthReply(e)
    \/ \E e \in EnsureIds : EnsureHealthResume(e)
    \/ \E e \in EnsureIds : EnsureLoopTop(e)
    \/ \E c \in Calls : Respond(c)
    \/ \E p \in Pids : BackendReady(p)
    \/ \E p \in Pids, o \in BOOLEAN : BackendExit(p, o)

Spec == Init /\ [][Next]_vars

\* The handlers of routes/lifecycle.py alone (POST /launch and POST /evict,
\* the users of lifecycle._switch_lock) with the backend's own behaviour.
LifecycleNext ==
    \/ \E l \in LaunchIds, r \in Recipes : LaunchStart(l, r)
    \/ \E l \in LaunchIds : LaunchRegister(l)
    \/ \E l \in LaunchIds : LaunchLockTimeout(l)
    \/ \E l \in LaunchIds : LaunchAcquire2(l)
    \/ \E l \in LaunchIds : LaunchAcquired(l)
    \/ \E l \in LaunchIds : LaunchAfterEvict(l)
    \/ \E l \in LaunchIds : LaunchAfterSpawn(l)
    \/ \E l \in LaunchIds : LaunchHealthReply(l)
    \/ \E l \in LaunchIds : LaunchHealthResume(l)
    \/ \E l \in LaunchIds : LaunchLoopTop(l)
    \/ \E l \in LaunchIds : LaunchAfterTimeoutKill(l)
    \/ \E v \in EvictIds : EvictStart(v)
    \/ \E v \in EvictIds, f \in BOOLEAN : EvictAcquired(v, f)
    \/ \E v \in EvictIds : EvictDone(v)
    \/ \E c \in Calls : Respond(c)
    \/ \E p \in Pids : BackendReady(p)
    \/ \E p \in Pids, o \in BOOLEAN : BackendExit(p, o)

LifecycleSpec == Init /\ [][LifecycleNext]_vars

\* POST /launch alone, with backends that load and then stay up: a spawned
\* pid that is gone was killed by a launch.
LaunchNext ==
    \/ \E l \in LaunchIds, r \in Recipes : LaunchStart(l, r)
    \/ \E l \in LaunchIds : LaunchRegister(l)
    \/ \E l \in LaunchIds : LaunchLockTimeout(l)
    \/ \E l \in LaunchIds : LaunchAcquire2(l)
    \/ \E l \in LaunchIds : LaunchAcquired(l)
    \/ \E l \in LaunchIds : LaunchAfterEvict(l)
    \/ \E l \in LaunchIds : LaunchAfterSpawn(l)
    \/ \E l \in LaunchIds : LaunchHealthReply(l)
    \/ \E l \in LaunchIds : LaunchHealthResume(l)
    \/ \E l \in LaunchIds : LaunchLoopTop(l)
    \/ \E l \in LaunchIds : LaunchAfterTimeoutKill(l)
    \/ \E c \in Calls : Respond(c)
    \/ \E p \in Pids : BackendReady(p)

LaunchSpec == Init /\ [][LaunchNext]_vars

\* The chat proxy's auto-switch alone (the user of proxy._switch_lock) with
\* the backend's own behaviour.
ProxyNext ==
    \/ \E e \in EnsureIds, m \in ModelNames : EnsureStart(e, m)
    \/ \E e \in EnsureIds : EnsureAcquired(e)
    \/ \E e \in EnsureIds : EnsureSpawn(e)
    \/ \E e \in EnsureIds : EnsureAfterSpawn(e)
    \/ \E e \in EnsureIds : EnsureHealthReply(e)
    \/ \E e \in EnsureIds : EnsureHealthResume(e)
    \/ \E e \in EnsureIds : EnsureLoopTop(e)
    \/ \E c \in Calls : Respond(c)
    \/ \E p \in Pids : BackendReady(p)
    \/ \E p \in Pids, o \in BOOLEAN : BackendExit(p, o)

ProxySpec == Init /\ [][ProxyNext]_vars

\* The event bus alone: publishers, subscribers and the wall clock.
BusNext ==
    \/ \E s \in Subs, ch \in Channels : Subscribe(s, ch)
    \/ \E s \in Subs : Get(s)
    \/ \E s \in Subs : Leave(s)
    \/ \E ch \in Channels : Publish(ch)
    \/ ClockTick

BusSpec == Init /\ [][BusNext]_vars

\* The event bus under the event loop's scheduling: a subscriber suspended in
\* queue.get() is resumed once its queue holds an event (events.py:72-74).
\* Publishers, the clock and a consumer going away are left to the
\* environment.
FairBusSpec == BusSpec /\ \A s \in Subs : WF_vars(Get(s))

\* One chat request through the repairs of the proxy, or one model output
\* through the callback handler.
RepairNext ==
    \/ \E d \in Chunks : StreamChunk(d)
    \/ StreamEnd
    \/ \E c \in Contents, r \in {<<>>, <<Txt>>}, t \in {<<>>, <<Call("f", ArgCompact)>>} :
          NonStreaming([content |-> c, rc |-> r, tool_calls |-> t,
                        finish_reason |-> "stop"])
    \/ \E c \in {x \in Contents : Has(x, "mcp")} : HookParse(c)
    \/ \E is_streaming \in BOOLEAN : UpstreamRefused(is_streaming)

RepairSpec == Init /\ [][RepairNext]_vars

\* The metrics loop, the backend it scrapes and restarts of the controller.
MetricsNext ==
    \* seconds between two iterations as time.time() gives them (the clock
    \* was set back, the usual second, a stalled loop), the sum of
    \* gpu.power_draw in watts, and whether the GET of /metrics answers 200
    \/ \E elapsed \in {-1, 1, 10}, power \in {0, 1}, scrape \in {"ok", "fail"} :
          MetricsTick(elapsed, power, scrape)
    \/ ControllerRestart
    \/ \E n \in 1..MaxServed : BackendServes(n)
    \/ BackendStops
    \/ BackendStarts

MetricsSpec == Init /\ [][MetricsNext]_vars

\* One call of the command builder.
BuildNext == bphase = "idle" /\ \E recipe \in BuildRecipes : BuildVllm(recipe)

BuildSpec == Init /\ [][BuildNext]_vars

TypeOK ==
    /\ lpc \in [LaunchIds -> {"idle", "preempted", "acquire", "lockslept", "acquire2",
                              "evicted", "spawned", "health", "tick", "tkill", "done", "closed"}]
    /\ launching \in Recipes \cup {NoRecipe}
    /\ cancelMap \in [Recipes -> LaunchIds \cup {NoLaunch}]
    /\ \A p \in Pids : proc[p].st \in {"unborn", "alive", "dead"}

\* ---------------------------------------------------------- properties
\* the launch holds lifecycle._switch_lock: it is between its evicting event
\* and its terminal outcome
LaunchSection(l) == lpc[l] \in {"evicted", "spawned", "health", "tick", "tkill"}
\* the spawned pid or a descendant of it is alive
TreeAlive(pr, p) == p # NoPid /\ (pr[p].st = "alive" \/ pr[p].child)

\* C1: at most one backend process matching the inference port exists, for
\* any interleaving of Launch, Evict and EnsureRunning calls.
C1_AtMostOneBackend == Cardinality(Alive(proc)) <= 1

\* C2: the evict/spawn/wait section of an auto-switch and the one of an
\* explicit Launch never execute at the same time.
C2_LaunchExcludesAutoSwitch ==
    \A l \in LaunchIds, e \in EnsureIds :
        ~(LaunchSection(l) /\ epc[e] \in {"evicted", "spawned", "health", "tick"})

\* C3: no two Launch calls are at the same time between their evicting event
\* and their terminal outcome, and the one that is there holds the mutex,
\* also when a waiter went through the lock-timeout path.
C3_OneLaunchHoldsMutex ==
    /\ \A a, b \in LaunchIds : LaunchSection(a) /\ LaunchSection(b) => a = b
    /\ \A l \in LaunchIds : LaunchSection(l) => llock = Me(l)
C3_Witness ==
    \E a, b \in LaunchIds : LaunchSection(a) /\ lpc[b] = "acquire2" /\ llock = Me(a)

\* C4: a Launch that was in its waiting loop when a Launch for a different
\* recipe was issued returns failure with outcome cancelled.
C4_PreemptedLaunchCancelled ==
    \A a \in LaunchIds :
        lpc[a] = "done" /\ lhist[a].issuedInWait => lresult[a].outcome = "cancelled"

\* C5: when a Launch that was issued after another launch (of a different
\* recipe) had published waiting returns success, the only backend alive is
\* the one it spawned itself: no other spawned pid and no descendant of one
\* is alive.
C5_NoPreemptedProcessRemains ==
    \A b \in LaunchIds :
        lpc[b] = "done" /\ lresult[b].outcome = "ready" /\ lhist[b].issuedAfterWaiting
            => \A p \in Pids : p # lpid[b] => ~TreeAlive(proc, p)
\* the weaker statement over the spawned pids alone, leaving descendants aside
PreemptorOwnsBackend ==
    \A b \in LaunchIds :
        lpc[b] = "done" /\ lresult[b].outcome = "ready" /\ lhist[b].issuedAfterWaiting
            => Alive(proc) \subseteq {lpid[b]}

\* C6: a Launch that returns "Launch cancelled" from the readiness wait leaves
\* neither the pid it spawned nor a descendant of that pid alive.
C6_CancelKillsTree ==
    \A l \in LaunchIds :
        lpc[l] = "done" /\ lresult[l].message = "Launch cancelled" /\ lpid[l] # NoPid
            => ~TreeAlive(proc, lpid[l])

\* C7: after a failed launch (early exit, crash during the wait, readiness
\* timeout) no descendant of the spawned pid is alive.
C7_FailedLaunchLeavesNoDescendant ==
    \A l \in LaunchIds :
        lpc[l] = "done" /\ lresult[l].message \in {"Process exited early", "Process crashed", "timeout"}
            => ~TreeAlive(proc, lpid[l])

\* C8 as stated: launching_recipe_id is non-null iff some Launch is past its
\* evict step and has not reached ready, error or cancelled.
C8_LaunchingIffPastEvict ==
    (launching # NoRecipe) <=> (\E l \in LaunchIds : LaunchSection(l))
\* C8 amended: launching_recipe_id is non-null only while a Launch of that
\* recipe has registered and not yet cleaned up.
C8_LaunchingOnlyWhileRegistered ==
    launching # NoRecipe
        => \E l \in LaunchIds :
              /\ lpc[l] \in {"acquire", "lockslept", "acquire2"} \/ LaunchSection(l)
              /\ lrecipe[l] = launching
C8_Witness ==
    \E l \in LaunchIds : lpc[l] = "acquire" /\ llock # Me(l) /\ launching = lrecipe[l]

\* C9: whenever no Launch is in flight, launching_recipe_id is null and the
\* map of cancel signals is empty.
C9_IdleSlotClean ==
    (\A l \in LaunchIds : lpc[l] \in {"idle", "done", "closed"})
        => launching = NoRecipe /\ \A r \in Recipes : cancelMap[r] = NoLaunch
C9_Witness ==
    \E l \in LaunchIds :
        /\ lpc[l] = "done" /\ lhist[l].issuedAfterWaiting
        /\ \A k \in LaunchIds : k # l => lpc[k] = "closed"

\* the events a launch published for its own recipe
OwnEvents(l) == SelectSeq(lpub[l], LAMBDA ev : ev.rid = lrecipe[l])
\* the launch published cancelled for the launch it preempted
Preempted(l) == \E i \in 1..Len(lpub[l]) : lpub[l][i].rid # lrecipe[l]
StageOrder(s, pre) ==
    LET k == IF pre THEN 1 ELSE 0 IN
    /\ Len(s) >= k + 4
    /\ pre => s[1].stage = "preempting"
    /\ s[k + 1].stage = "evicting" /\ s[k + 1].progress = 0
    /\ s[k + 2].stage = "launching" /\ s[k + 2].progress = 25
    /\ \A i \in (k + 3)..(Len(s) - 1) : s[i].stage = "waiting" /\ s[i].progress >= 50
    /\ s[Len(s)].stage = "ready" /\ s[Len(s)].progress = 100

\* C10: a Launch that succeeds has published for its recipe, in this order:
\* preempting (only when it preempted), evicting (0.0), launching (0.25),
\* waiting (one or more, 0.5 and above), ready (1.0), and nothing else.
C10_SuccessStageOrder ==
    \A l \in LaunchIds :
        lpc[l] = "done" /\ lresult[l].outcome = "ready"
            => StageOrder(OwnEvents(l), Preempted(l))
C10_Witness ==
    \E l \in LaunchIds :
        /\ lpc[l] = "done" /\ lresult[l].outcome = "ready" /\ Preempted(l)
        /\ Len(OwnEvents(l)) >= 6

Handed(s) == received[s] \o queue[s]
\* the subscriber registered and did not go away
Live(s) == spc[s] = "waiting"
StrictlyIncreasing(f) == \A i, j \in 1..Len(f) : i < j => f[i] < f[j]

\* C12: the event ids a subscriber that never had an event dropped receives
\* are strictly increasing; no two events carry the same id.
C12_IdsStrictlyIncreasing ==
    \A s \in Subs : ~missed[s] => StrictlyIncreasing([i \in 1..Len(received[s]) |-> received[s][i].id])

\* C13: every subscriber receives the events of its channel in publish
\* order: what it is handed is a subsequence of what was published on its
\* channel after it joined, whether or not events were dropped for it.
C13_DeliveredInPublishOrder ==
    \A s \in Subs :
        /\ StrictlyIncreasing([i \in 1..Len(Handed(s)) |-> Handed(s)[i].n])
        /\ \A i \in 1..Len(Handed(s)) :
              \E k \in (sfrom[s] + 1)..Len(published[schan[s]]) :
                  published[schan[s]][k] = Handed(s)[i]
C13_Witness ==
    \E s \in Subs : missed[s] /\ Len(received[s]) >= 2

\* C14: a queue never holds more than maxsize events; a subscriber whose
\* queue was full loses the event and its registration, and every other
\* subscriber of the channel is handed every event published since it joined.
C14_DropOnFullOnly ==
    \A s \in Subs :
        /\ Len(queue[s]) <= maxsize
        /\ Live(s) => (missed[s] <=> s \notin subscribers[schan[s]])
        /\ Live(s) /\ ~missed[s] =>
              Handed(s) = SubSeq(published[schan[s]], sfrom[s] + 1, Len(published[schan[s]]))
C14_Witness ==
    \E s, t \in Subs :
        /\ schan[s] = schan[t] /\ Live(s) /\ Live(t)
        /\ missed[s] /\ ~missed[t]
        /\ Len(Handed(t)) > maxsize

\* C15: an auto-switch never evicts when the one running, ready backend is
\* the one of the recipe the requested name resolves to (the state a first
\* successful request for that model leaves behind), whether the name is the
\* served name or the recipe id.
C15_AutoSwitchIdempotent ==
    [][\A e \in EnsureIds :
          epc[e] = "acquire" /\ epc'[e] = "evicted"
              => ~\E p \in Pids :
                      /\ Alive(proc) = {p}
                      /\ proc[p].ready
                      /\ proc[p].recipe = FindRecipeByModel(emodel[e])]_vars

\* C16: when the auto-switch returns an error, the chat handler answers 503
\* with that error as detail and does not forward the request upstream.
C16_SwitchErrorIs503 ==
    \A e \in EnsureIds :
        epc[e] = "done" /\ eresult[e] \in {"launch failed", "crashed", "timeout"}
            => chat[e] = [status |-> 503, detail |-> eresult[e], forwarded |-> FALSE]
C16_Witness ==
    \E e \in EnsureIds : epc[e] = "done" /\ eresult[e] = "timeout" /\ chat[e].status = 503

\* C17: a request whose name the running backend already serves (compared
\* without regard to case), or whose name matches no recipe, returns success
\* in the step it is issued, without touching the lock or a process.
C17_NoSwitchWhenServedOrUnknown ==
    [][\A e \in EnsureIds :
          /\ epc[e] = "idle" /\ epc'[e] # "idle"
          /\ \/ \E p \in Pids : Alive(proc) = {p} /\ lower(ServedName(proc[p].recipe)) = lower(emodel'[e])
             \/ FindRecipeByModel(emodel'[e]) = NoRecipe
          => /\ epc'[e] = "done" /\ eresult'[e] = "ok" /\ chat'[e].forwarded
             /\ proc' = proc /\ plock' = plock /\ epid'[e] = NoPid]_vars
C17_Witness ==
    \E e \in EnsureIds, p \in Pids :
        /\ epc[e] = "done" /\ eresult[e] = "ok" /\ epid[e] = NoPid
        /\ emodel[e] = "m2" /\ Alive(proc) = {p} /\ ServedName(proc[p].recipe) = "M2"

\* the chunks the proxy added at the end of the stream
Synthetic == SelectSeq(delivered, LAMBDA it : it.src = 0)
\* the names and argument texts the MCP blocks of a text stand for
McpNamesOf(text) ==
    {McpFunctionName(text[i].server, text[i].name) : i \in {j \in 1..Len(text) : text[j].k = "mcp"}}
McpArgsOf(text) ==
    {strip(text[i].args) : i \in {j \in 1..Len(text) : text[j].k = "mcp"}}
    \cup {Reserialize(strip(text[i].args)) :
             i \in {j \in 1..Len(text) : text[j].k = "mcp" /\ JsonValid(strip(text[j].args))}}
McpCallsRight(calls, text) ==
    \A i \in 1..Len(calls) :
        calls[i].name \in McpNamesOf(text) /\ calls[i].arguments \in McpArgsOf(text)

\* C18: a delivered chunk that comes from an upstream chunk carrying both
\* reasoning and reasoning_content carries reasoning_content and no
\* reasoning key, whatever other repairs the chunk went through without
\* raising.
C18_DuplicateReasoningRemoved ==
    \A i \in 1..Len(delivered) :
        /\ delivered[i].src > 0 /\ DupTrigger(upstream[delivered[i].src])
        /\ ~Raises(upstream[delivered[i].src])
            => ~delivered[i].chunk.reasoning /\ delivered[i].chunk.rc # <<>>

\* C19: a synthesized final tool-call chunk is delivered only when no
\* upstream chunk carried a tool_calls entry.
C19_SyntheticOnlyWithoutUpstreamCall ==
    rphase = "ended" /\ Synthetic # <<>>
        => \A j \in 1..Len(upstream) : upstream[j].tool_calls = <<>>

\* C20: a tool call rebuilt from MCP blocks is named S__T, or T when the
\* server name is empty, and its arguments are the block's JSON text: in the
\* synthesized chunk of a stream, in the non-streaming repair and in the
\* callback handler.
C20_McpCallName ==
    /\ rphase = "ended" /\ Has(tool_call_buffer.content, "mcp") /\ tool_call_buffer.tool_args = <<>>
          => \A i \in 1..Len(Synthetic) :
                McpCallsRight(Synthetic[i].chunk.tool_calls, tool_call_buffer.content)
    /\ rphase = "json" /\ Has(request.content \o request.rc, "mcp") /\ request.tool_calls = <<>>
          => McpCallsRight(reply.tool_calls, request.content \o request.rc)
    /\ rphase = "hook" => McpCallsRight(reply.tool_calls, request.content)

\* C21: a non-streaming assistant message without tool calls whose text
\* holds a tool call the parser recognises is returned with a non-empty
\* tool_calls array, finish_reason tool_calls, and content free of the
\* tool-call markup, by the proxy and by the callback handler.
C21_RepairedMessageStripped ==
    /\ rphase = "json" /\ request.tool_calls = <<>>
          /\ parse_tool_calls_from_content(request.content \o request.rc) # <<>>
          => /\ reply.tool_calls # <<>>
             /\ reply.finish_reason = "tool_calls"
             /\ ~has_tool_pattern(reply.content)
    /\ rphase = "hook" /\ HandlerMcpCalls(request.content) # <<>>
          => /\ reply.tool_calls # <<>>
             /\ reply.finish_reason = "tool_calls"
             /\ ~has_tool_pattern(reply.content)

\* a delta without <think> and </think>
NoThinkTags(d) ==
    /\ ~Has(d.content, "<think>") /\ ~Has(d.content, "</think>")
    /\ ~Has(d.rc, "<think>") /\ ~Has(d.rc, "</think>")
\* a delta the duplicate-reasoning and tool-name repairs leave alone
NoOtherRepair(d) ==
    ~DupTrigger(d) /\ \A i \in 1..Len(d.tool_calls) : strip(d.tool_calls[i].name) # ""

\* C22: while no delta of the stream so far holds a think tag, in_thinking
\* is false and every delivered chunk that no other repair applies to is the
\* upstream chunk it comes from, unchanged.
C22_NoThinkTagsIdentity ==
    (\A j \in 1..Len(upstream) : NoThinkTags(upstream[j]))
        => /\ in_thinking = FALSE
           /\ \A i \in 1..Len(delivered) :
                 delivered[i].src > 0 /\ NoOtherRepair(upstream[delivered[i].src])
                    => delivered[i].chunk = upstream[delivered[i].src]
\* a full stream without think tags went through, with text in a delivered
\* chunk that the tool-call stage looked at
C22_Witness ==
    /\ Len(upstream) = MaxChunks
    /\ \A j \in 1..Len(upstream) : NoThinkTags(upstream[j])
    /\ \E i \in 1..Len(delivered) :
          /\ delivered[i].src > 0
          /\ NoOtherRepair(upstream[delivered[i].src])
          /\ ToolTrigger(upstream[delivered[i].src])
          /\ delivered[i].chunk.content # <<>>

\* C23: when the upstream refuses the connection the proxy's response has
\* status 503, with and without stream.
C23_RefusedIs503 ==
    rphase \in {"json_refused", "stream_refused"} => http_status = 503

\* no <think> in the first n chunks of the stream
NoThinkOpened(n) ==
    \A j \in 1..n : ~Has(upstream[j].content, "<think>") /\ ~Has(upstream[j].rc, "<think>")

\* C28: a delta whose content holds </think>, with no <think> in the stream
\* up to and including it and no reasoning_content of its own, is delivered
\* with the text before </think> as reasoning_content and the text after it
\* as content.
C28_CloseWithoutOpenSplits ==
    \A i \in 1..Len(delivered) :
        LET u == upstream[delivered[i].src] IN
        delivered[i].src > 0 /\ NoThinkOpened(delivered[i].src)
              /\ Has(upstream[delivered[i].src].content, "</think>")
              /\ upstream[delivered[i].src].rc = <<>>
            => /\ delivered[i].chunk.rc = Before(u.content, "</think>")
               /\ delivered[i].chunk.content = After(u.content, "</think>")

\* a delta that carries content only
ContentDelta(d) == d.role = "assistant" /\ ~d.reasoning /\ d.rc = <<>> /\ ~d.tc_key
\* whether a <think> is open after reading text, given whether one was before
RECURSIVE OpenAfter(_, _)
OpenAfter(text, open) ==
    IF text = <<>> THEN open
    ELSE OpenAfter(Tail(text), IF Head(text).k = "<think>" THEN TRUE
                               ELSE IF Head(text).k = "</think>" THEN FALSE ELSE open)
\* whether a <think> is open after the first n chunks of the stream
RECURSIVE OpenAt(_)
OpenAt(n) == IF n = 0 THEN FALSE ELSE OpenAfter(upstream[n].content, OpenAt(n - 1))

\* C29: over a stream of content deltas, in_thinking is true exactly when
\* the stream so far holds a <think> that no later </think> closes, and a
\* delta read while a <think> is open and holding no tag itself is delivered
\* with its text as reasoning_content and no content.
C29_InThinkingTracksOpenTag ==
    (\A j \in 1..Len(upstream) : ContentDelta(upstream[j]))
        => /\ in_thinking = OpenAt(Len(upstream))
           /\ \A i \in 1..Len(delivered) :
                 LET u == upstream[delivered[i].src] IN
                 delivered[i].src > 0 /\ OpenAt(delivered[i].src - 1) /\ NoThinkTags(u)
                    => /\ delivered[i].chunk.content = <<>>
                       /\ delivered[i].chunk.rc = u.content

\* C24: no step of the metrics loop, of the backend or of a controller
\* restart lowers tokens_total, requests_total, energy_wh or uptime_seconds.
C24_LifetimeMonotonic ==
    [][\A k \in LifetimeKeys : lifetime'[k] >= lifetime[k]]_vars
\* after a controller restart, the loop has scraped a restarted backend
\* whose counters are below the value kept from the backend before it
C24_Witness ==
    /\ restarts > 0
    /\ backend_running /\ reported_tokens >= 0
    /\ backend_tokens < last_tokens_total
    /\ lifetime["tokens_total"] > 0 /\ lifetime["energy_wh"] > 0

\* C30: once the loop has scraped a restarted backend, every later scrape
\* adds at least the tokens the backend has served since the previous one.
C30_LaterIncreasesCounted ==
    [][(/\ mticks' = mticks + 1
        /\ backend_running /\ reported_tokens >= 0
        /\ backend_tokens > reported_tokens
        /\ reported_tokens' = backend_tokens)
          => lifetime'["tokens_total"]
                >= lifetime["tokens_total"] + (backend_tokens - reported_tokens)]_vars

\* the flags of a command whose key is a controller-internal key in some spelling
InternalFlags(c) ==
    {i \in 1..Len(c) : c[i].flag /\ key_lower(replace(c[i].key, "-", "_")) \in INTERNAL_KEYS}
\* how often --enable-auto-tool-choice stands in a command
AutoToolChoiceCount(c) ==
    Cardinality({i \in 1..Len(c) : c[i] = Opt(<<"enable", "auto", "tool", "choice">>)})
\* a tool-call parser is in effect for the recipe
ParserInEffect(recipe) ==
    recipe.tool_call_parser # "" \/ get_default_tool_call_parser(recipe) # ""

\* C25: the command built for a recipe holds no flag for a
\* controller-internal key of extra_args, in snake_case or kebab-case.
C25_NoInternalFlag ==
    bphase = "built" => InternalFlags(cmd) = {}
\* a recipe with an internal key in kebab-case and one in upper case, next to
\* a key that did become a flag
C25_Witness ==
    /\ bphase = "built"
    /\ \E i \in 1..Len(build_recipe.extra_args) :
          /\ build_recipe.extra_args[i].key = Key(<<"venv", "path">>, "-", FALSE)
          /\ build_recipe.extra_args[i].value = "text"
    /\ \E i \in 1..Len(cmd) : cmd[i] = Flag(Key(<<"enforce", "eager">>, "-", FALSE))

\* C26: with a tool-call parser in effect, set in the recipe or detected
\* from the model name, --enable-auto-tool-choice stands exactly once in the
\* command, whatever extra_args says about enable_auto_tool_choice.
C26_AutoToolChoiceOnce ==
    bphase = "built" /\ ParserInEffect(build_recipe) => AutoToolChoiceCount(cmd) = 1
\* the parser was detected from the model name and extra_args asks for the
\* flag in kebab-case
C26_Witness ==
    /\ bphase = "built"
    /\ build_recipe.tool_call_parser = "" /\ ParserInEffect(build_recipe)
    /\ \E i \in 1..Len(build_recipe.extra_args) :
          /\ build_recipe.extra_args[i].key = Key(<<"enable", "auto", "tool", "choice">>, "-", FALSE)
          /\ build_recipe.extra_args[i].value = "True"
    /\ AutoToolChoiceCount(cmd) = 1

\* C27: a Launch and an EnsureRunning that return failure because the
\* readiness wait timed out leave the pid they spawned dead.
C27_TimeoutKillsSpawnedPid ==
    /\ \A l \in LaunchIds :
          lpc[l] = "done" /\ lresult[l].message = "timeout" /\ lpid[l] # NoPid
             => ~pid_exists(proc, lpid[l])
    /\ \A e \in EnsureIds :
          epc[e] = "done" /\ eresult[e] = "timeout" /\ epid[e] # NoPid
             => ~pid_exists(proc, epid[e])

\* C31: a graceful kill (the evict step of an auto-switch, an Evict without
\* force) leaves neither the process it killed nor a descendant of it alive.
C31_GracefulKillLeavesNoTree ==
    [][\A p \in Pids :
          /\ \/ \E e \in EnsureIds : epc[e] = "acquire" /\ epc'[e] = "evicted"
             \/ \E v \in EvictIds : vpc[v] = "acquire" /\ vpc'[v] = "killed" /\ ~vforce'[v]
          /\ proc[p].st = "alive"
          => ~TreeAlive(proc', p)]_vars

\* C32: for an entry of extra_args that is passed through (its key is not
\* internal, and neither the builder itself nor another entry writes its
\* flag), the value True puts the flag in the command with no value after
\* it, and the values False and None put nothing in the command.
C32_BooleanExtraArgs ==
    bphase = "built" =>
        LET xs == build_recipe.extra_args
            base == build_vllm_command([build_recipe EXCEPT !.extra_args = <<>>])
            FlagOf(i) == Flag(replace(xs[i].key, "_", "-"))
            PassThrough(i) ==
                /\ normalized_key(xs[i].key) \notin INTERNAL_KEYS
                /\ ~flag_in_cmd(FlagOf(i), base)
                /\ \A j \in 1..Len(xs) : j # i => FlagOf(j) # FlagOf(i)
        IN \A i \in 1..Len(xs) :
              PassThrough(i) =>
                 /\ xs[i].value = "True" =>
                       \E k \in 1..Len(cmd) :
                          cmd[k] = FlagOf(i) /\ (k < Len(cmd) => cmd[k + 1].flag)
                 /\ xs[i].value \in {"False", "None"} => ~flag_in_cmd(FlagOf(i), cmd)

\* C33: a chunk a streaming repair raised on is delivered as the upstream
\* sent it, and so is every chunk that follows: each upstream chunk but the
\* dropped ones has its delivered chunk.
C33_RaisingRepairPassesThrough ==
    /\ \A i \in 1..Len(delivered) :
          delivered[i].src > 0 /\ Raises(upstream[delivered[i].src])
             => delivered[i].chunk = upstream[delivered[i].src]
    /\ rphase = "stream" =>
          \A j \in 1..Len(upstream) :
             ~(upstream[j].role = "user" /\ upstream[j].tc_key /\ upstream[j].tool_calls = <<>>)
                => \E i \in 1..Len(delivered) : delivered[i].src = j

\* C38: the terminator the upstream sent is the last chunk delivered: no
\* chunk, the synthesized tool-call chunk included, follows data: [DONE].
C38_TerminatorLast ==
    \A i \in 1..Len(delivered) : delivered[i].chunk = Done => i = Len(delivered)

\* C34: a launch in flight whose cancel signal is set does not publish
\* ready and does not return success in any later step.
C34_CancelledNeverReady ==
    [][\A l \in LaunchIds :
          lcancel[l] /\ lpc[l] \notin {"idle", "done", "closed"}
             => /\ lresult'[l].outcome # "ready"
                /\ \A i \in 1..Len(lpub'[l]) : lpub'[l][i].stage # "ready"]_vars

\* C35: once cancelled has been published for a launch in flight (the
\* preempting launch publishes it in the step that sets the cancel signal),
\* the launch publishes no further event for its recipe.
C35_CancelledIsTerminal ==
    [][\A l \in LaunchIds :
          lcancel[l] /\ lpc[l] \notin {"idle", "done", "closed"}
             => SelectSeq(lpub'[l], LAMBDA ev : ev.rid = lrecipe[l]) = OwnEvents(l)]_vars

C37_SecondRequestNoSwitch ==
    [][\A e \in EnsureIds :
          /\ epc[e] = "acquire" /\ plock = En(e) /\ epc'[e] # "acquire"
          /\ \E a \in EnsureIds \ {e} : epc[a] = "closed"
          /\ \E p \in Pids :
                /\ Alive(proc) = {p}
                /\ proc[p].ready
                /\ proc[p].recipe = FindRecipeByModel(emodel[e])
          => /\ epc'[e] = "done" /\ eresult'[e] = "ok"
             /\ Alive(proc') = Alive(proc)
             /\ epid'[e] = NoPid]_vars

\* C39: a subscriber whose queue was taken out of the channel after an
\* overflow does not wait forever: once it has been cut off, its stream
\* eventually ends (after the events still queued have been yielded).
C39_CutOffSubscriberEnds ==
    \A s \in Subs : (missed[s] /\ Live(s)) ~> ~Live(s)

\* C40: where only launches kill backends, a launch that returns from its
\* wait for readiness with the pid it spawned already gone (a newer launch
\* force-killed it: in its preemption step or on its lock-timeout path, for
\* another recipe or the same one) returns cancelled.
C40_KilledLaunchIsCancelled ==
    [][\A a \in LaunchIds :
          /\ lpc[a] \in {"spawned", "health", "tick"} /\ lpc'[a] = "done"
          /\ lpid[a] # NoPid /\ ~pid_exists(proc, lpid[a])
          => lresult'[a].outcome = "cancelled"]_vars

====
